---- MODULE Spec2Model ----
(***************************************************************************)
(* Rummikub set validator (shoyo/rummikub): the parser state machine of    *)
(* src/parser.rs (is_valid_set) and its symmetry resolver (_is_symmetric), *)
(* over the tile model of src/tiles.rs and the colour maps of              *)
(* src/colors.rs.                                                          *)
(*                                                                         *)
(* Indices are 0-based as in the Rust source; At(s, i) reads s[i].         *)
(* A call that panics ends with result = "panic".                          *)
(***************************************************************************)
EXTENDS Integers, Sequences, FiniteSets, TLC

VARIABLES
    set,            \* the argument `set: &Vec<Tile>` (never written)
    entry,          \* the function called: "is_valid_set", "_is_symmetric", ...
    args,           \* the arguments of a call of another function
    output,         \* the value such a call returns
    pc,             \* position in the call
    index,          \* is_valid_set: the enumerate() index of the next tile
    parsing,        \* is_valid_set: the Parsing enum value
    axis,           \* _is_symmetric: the axis argument
    left,           \* _is_symmetric: left pointer
    right,          \* _is_symmetric: right pointer
    incr_dj_left,   \* _is_symmetric: pending flag of a Double joker on the left
    incr_dj_right,  \* _is_symmetric: pending flag of a Double joker on the right
    result          \* "none" while running, then "true", "false" or "panic"
                    \* ("Ok" or "Err" from a function returning a Result,
                    \* "returned" from one returning a value)

vars == <<set, entry, args, output, pc, index, parsing, axis, left, right,
          incr_dj_left, incr_dj_right, result>>

----------------------------------------------------------------------------
(* Bounds of the inputs.                                                   *)

\* longest sequence of the mixed family (all four joker variants)
MaxLen == 5
\* longest sequence of the same-value family (basic tiles of one value)
MaxGroupLen == 5
\* longest sequence of the run family (one colour, Single and Double jokers)
MaxRunLen == 5
\* longest joker-free prefix of the colour-change family
MaxPrefixLen == 3
\* most tiles after the first ColorChange joker of the colour-segment family
MaxTailLen == 3

----------------------------------------------------------------------------
(* src/tiles.rs                                                            *)

TileColor == {"Black", "Red", "Blue", "Orange"}

JokerVariant == {"Single", "Double", "Mirror", "ColorChange"}

MinTileValue == 1

MaxTileValue == 13

TileValue == MinTileValue..MaxTileValue

\* value == 0 || value > 13 is the panic condition of
\* _assert_valid_tile_value
ValidTileValue(value) == ~(value = 0 \/ value > MaxTileValue)

\* Tile::Basic(BasicTile { color, value })
Basic(color, value) == [kind |-> "Basic", color |-> color, value |-> value]

\* BasicTile::new with the test of the value off by one (value > 14)
BasicTile_new_OffByOne(color, value) ==
    IF value = 0 \/ value > MaxTileValue + 1 THEN [panic |-> TRUE]
    ELSE [panic |-> FALSE, tile |-> Basic(color, value)]

\* BasicTile::new(color, value): panics, or returns the tile
BasicTile_new(color, value) ==
    IF value = 0 \/ value > MaxTileValue THEN [panic |-> TRUE]
    ELSE [panic |-> FALSE, tile |-> Basic(color, value)]

Joker(variant) == [kind |-> "Joker", variant |-> variant]

IsBasic(t) == t.kind = "Basic"

IsJoker(t, variant) == t.kind = "Joker" /\ t.variant = variant

\* Option<T>
None == <<>>

Some(x) == <<x>>

\* set[i] with a 0-based i
At(s, i) == s[i + 1]

InRange(s, i) == 0 <= i /\ i < Len(s)

----------------------------------------------------------------------------
(* src/colors.rs                                                           *)

Colors_all == [c \in TileColor |-> TRUE]

Colors_none == [c \in TileColor |-> FALSE]

Colors_only(color) == [c \in TileColor |-> c = color]

Colors_except(color) == [c \in TileColor |-> c # color]

----------------------------------------------------------------------------
(* src/parser.rs: enum Parsing and the transitions of is_valid_set.        *)
(* Each transition takes the Parsing value p and the tile t and gives      *)
(* [ret, parsing]: ret is "continue" (next loop iteration), "false"        *)
(* (return false), "mirror" (return _is_symmetric(&set, index)) or "panic".*)
(* size, dist and last_value are u8; the inputs are short enough that no   *)
(* sum reaches 256.                                                        *)

Parsing_Run(last_value, allow, size) ==
    [state |-> "Run", last_value |-> last_value, allow |-> allow, size |-> size]

Parsing_Group(value, allow, size) ==
    [state |-> "Group", value |-> value, allow |-> allow, size |-> size]

Parsing_Undetermined(tile_seen, size) ==
    [state |-> "Undetermined", tile_seen |-> tile_seen, size |-> size]

Ret(ret, p) == [ret |-> ret, parsing |-> p]

\* allow.iter().filter(|(_, v)| **v).collect().len()
AllowCnt(allow) == Cardinality({c \in TileColor : allow[c]})

\* Run_Basic with the size guard taken after the increment
\* (t.value <= *size + 1)
Run_Basic_SizeAfterIncrement(p, t) ==
    IF ~ValidTileValue(t.value) THEN Ret("panic", p)
    ELSE IF ~p.allow[t.color] THEN Ret("false", p)
    ELSE IF t.value <= p.size + 1 THEN Ret("false", p)
    ELSE LET p1 == [p EXCEPT !.size = @ + 1] IN
         IF p1.last_value # None
         THEN LET val == p1.last_value[1] + 1
                  p2 == [p1 EXCEPT !.last_value = Some(val)]
              IN  IF t.value # val THEN Ret("false", p2) ELSE Ret("continue", p2)
         ELSE Ret("continue", [p1 EXCEPT !.allow = Colors_only(t.color),
                                         !.last_value = Some(t.value)])

\* Parsing::Run, Tile::Basic
Run_Basic(p, t) ==
    IF ~ValidTileValue(t.value) THEN Ret("panic", p)
    ELSE IF ~p.allow[t.color] THEN Ret("false", p)
    ELSE IF t.value <= p.size THEN Ret("false", p)
    ELSE LET p1 == [p EXCEPT !.size = @ + 1] IN
         IF p1.last_value # None
         THEN LET val == p1.last_value[1] + 1
                  p2 == [p1 EXCEPT !.last_value = Some(val)]
              IN  IF t.value # val THEN Ret("false", p2) ELSE Ret("continue", p2)
         ELSE Ret("continue", [p1 EXCEPT !.allow = Colors_only(t.color),
                                         !.last_value = Some(t.value)])

\* Parsing::Run, JokerVariant::Single (n = 1) and JokerVariant::Double (n = 2)
Run_SingleDouble(p, n) ==
    LET p1 == [p EXCEPT !.size = @ + n] IN
    IF p1.last_value # None
    THEN LET val == p1.last_value[1] + n
             p2 == [p1 EXCEPT !.last_value = Some(val)]
         IN  IF val > MaxTileValue THEN Ret("false", p2) ELSE Ret("continue", p2)
    ELSE Ret("continue", p1)

\* Run_ColorChange without the inversion of a single allowed colour: the
\* run goes on in the colour it had
Run_ColorChange_NoFlip(p) ==
    LET p1 == [p EXCEPT !.size = @ + 1] IN
    IF p1.last_value # None
    THEN LET val == p1.last_value[1] + 1
             p2 == [p1 EXCEPT !.last_value = Some(val)]
             allow_cnt == AllowCnt(p2.allow)
         IN  IF val > MaxTileValue THEN Ret("false", p2)
             ELSE IF allow_cnt = 1 THEN Ret("continue", p2)
             ELSE IF allow_cnt = 3
                  THEN Ret("continue", [p2 EXCEPT !.allow = Colors_all])
             ELSE Ret("panic", p2)
    ELSE Ret("continue", [p1 EXCEPT !.allow = Colors_all])

\* Run_ColorChange with a second ColorChange joker inverting the allowance
\* again, back to the one colour before the first
Run_ColorChange_FlipBack(p) ==
    LET p1 == [p EXCEPT !.size = @ + 1] IN
    IF p1.last_value # None
    THEN LET val == p1.last_value[1] + 1
             p2 == [p1 EXCEPT !.last_value = Some(val)]
             allow_cnt == AllowCnt(p2.allow)
         IN  IF val > MaxTileValue THEN Ret("false", p2)
             ELSE IF allow_cnt = 1 \/ allow_cnt = 3
                  THEN Ret("continue",
                           [p2 EXCEPT !.allow = [c \in TileColor |-> ~p2.allow[c]]])
             ELSE Ret("panic", p2)
    ELSE Ret("continue", [p1 EXCEPT !.allow = Colors_all])

\* Parsing::Run, JokerVariant::ColorChange
Run_ColorChange(p) ==
    LET p1 == [p EXCEPT !.size = @ + 1] IN
    IF p1.last_value # None
    THEN LET val == p1.last_value[1] + 1
             p2 == [p1 EXCEPT !.last_value = Some(val)]
             allow_cnt == AllowCnt(p2.allow)
         IN  IF val > MaxTileValue THEN Ret("false", p2)
             ELSE IF allow_cnt = 1
                  THEN Ret("continue",
                           [p2 EXCEPT !.allow = [c \in TileColor |-> ~p2.allow[c]]])
             ELSE IF allow_cnt = 3
                  THEN Ret("continue", [p2 EXCEPT !.allow = Colors_all])
             ELSE Ret("panic", p2)
    ELSE Ret("continue", [p1 EXCEPT !.allow = Colors_all])

\* Parsing::Run
Run(p, t) ==
    IF IsBasic(t) THEN Run_Basic(p, t)
    ELSE IF t.variant = "Single" THEN Run_SingleDouble(p, 1)
    ELSE IF t.variant = "Double" THEN Run_SingleDouble(p, 2)
    ELSE IF t.variant = "Mirror" THEN Ret("mirror", p)
    ELSE Run_ColorChange(p)

\* Group_Basic with the size limit off by one (*size >= 4)
Group_Basic_OffByOne(p, t) ==
    IF ~ValidTileValue(t.value) THEN Ret("panic", p)
    ELSE IF t.value # p.value THEN Ret("false", p)
    ELSE IF ~p.allow[t.color] THEN Ret("false", p)
    ELSE LET p1 == [p EXCEPT !.size = @ + 1] IN
         IF p1.size >= 4 THEN Ret("false", p1) ELSE Ret("continue", p1)

\* Parsing::Group, Tile::Basic
Group_Basic(p, t) ==
    IF ~ValidTileValue(t.value) THEN Ret("panic", p)
    ELSE IF t.value # p.value THEN Ret("false", p)
    ELSE IF ~p.allow[t.color] THEN Ret("false", p)
    ELSE LET p1 == [p EXCEPT !.size = @ + 1] IN
         IF p1.size > 4 THEN Ret("false", p1) ELSE Ret("continue", p1)

\* Parsing::Group, JokerVariant::Single (n = 1) and JokerVariant::Double (n = 2)
Group_SingleDouble(p, n) ==
    LET p1 == [p EXCEPT !.size = @ + n] IN
    IF p1.size > 4 THEN Ret("false", p1) ELSE Ret("continue", p1)

\* Group with the ColorChange arm going on to the next tile
Group_ColorChangeSkipped(p, t) ==
    IF IsBasic(t) THEN Group_Basic(p, t)
    ELSE IF t.variant = "Single" THEN Group_SingleDouble(p, 1)
    ELSE IF t.variant = "Double" THEN Group_SingleDouble(p, 2)
    ELSE IF t.variant = "Mirror" THEN Ret("mirror", p)
    ELSE Ret("continue", p)

\* Group with the Mirror joker taken as a Single joker: the loop goes on
Group_MirrorAsSingle(p, t) ==
    IF IsBasic(t) THEN Group_Basic(p, t)
    ELSE IF t.variant = "Single" \/ t.variant = "Mirror"
    THEN Group_SingleDouble(p, 1)
    ELSE IF t.variant = "Double" THEN Group_SingleDouble(p, 2)
    ELSE Ret("false", p)

\* Parsing::Group
Group(p, t) ==
    IF IsBasic(t) THEN Group_Basic(p, t)
    ELSE IF t.variant = "Single" THEN Group_SingleDouble(p, 1)
    ELSE IF t.variant = "Double" THEN Group_SingleDouble(p, 2)
    ELSE IF t.variant = "Mirror" THEN Ret("mirror", p)
    ELSE Ret("false", p)

\* Undetermined_Basic without the final `else { return false; }`: a second
\* basic tile that fits neither a run nor a group is skipped
Undetermined_Basic_NoReject(p, t) ==
    IF ~ValidTileValue(t.value) THEN Ret("panic", p)
    ELSE IF p.tile_seen # None
    THEN LET ts == p.tile_seen[1].ts
             dist == p.tile_seen[1].dist
         IN  IF t.value = ts.value + dist /\ t.color = ts.color
             THEN IF p.size > t.value THEN Ret("false", p)
                  ELSE Ret("continue",
                           Parsing_Run(Some(t.value), Colors_only(t.color), p.size + 1))
             ELSE IF t.value = ts.value /\ t.color # ts.color
             THEN IF p.size > 3 THEN Ret("false", p)
                  ELSE LET allow == [Colors_all EXCEPT ![t.color] = FALSE,
                                                       ![ts.color] = FALSE]
                       IN  Ret("continue", Parsing_Group(ts.value, allow, p.size + 1))
             ELSE Ret("continue", p)
    ELSE LET made == BasicTile_new(t.color, t.value)
             p1 == [p EXCEPT !.size = @ + 1,
                             !.tile_seen = Some([ts |-> made.tile, dist |-> 1])]
         IN  IF made.panic THEN Ret("panic", [p EXCEPT !.size = @ + 1])
             ELSE IF p1.size > 4
             THEN IF t.value <= p1.size THEN Ret("false", p1)
                  ELSE Ret("continue",
                           Parsing_Run(None, Colors_only(t.color), p1.size))
             ELSE Ret("continue", p1)

\* Parsing::Undetermined, Tile::Basic
Undetermined_Basic(p, t) ==
    IF ~ValidTileValue(t.value) THEN Ret("panic", p)
    ELSE IF p.tile_seen # None
    THEN LET ts == p.tile_seen[1].ts
             dist == p.tile_seen[1].dist
         IN  IF t.value = ts.value + dist /\ t.color = ts.color
             THEN IF p.size > t.value THEN Ret("false", p)
                  ELSE Ret("continue",
                           Parsing_Run(Some(t.value), Colors_only(t.color), p.size + 1))
             ELSE IF t.value = ts.value /\ t.color # ts.color
             THEN IF p.size > 3 THEN Ret("false", p)
                  ELSE LET allow == [Colors_all EXCEPT ![t.color] = FALSE,
                                                       ![ts.color] = FALSE]
                       IN  Ret("continue", Parsing_Group(ts.value, allow, p.size + 1))
             ELSE Ret("false", p)
    ELSE LET made == BasicTile_new(t.color, t.value)
             p1 == [p EXCEPT !.size = @ + 1,
                             !.tile_seen = Some([ts |-> made.tile, dist |-> 1])]
         IN  IF made.panic THEN Ret("panic", [p EXCEPT !.size = @ + 1])
             ELSE IF p1.size > 4
             THEN IF t.value <= p1.size THEN Ret("false", p1)
                  ELSE Ret("continue",
                           Parsing_Run(None, Colors_only(t.color), p1.size))
             ELSE Ret("continue", p1)

\* the tile_seen of Parsing::Undetermined with its dist advanced by n
AdvanceDist(tile_seen, n) ==
    IF tile_seen # None
    THEN Some([tile_seen[1] EXCEPT !.dist = @ + n])
    ELSE None

\* Parsing::Undetermined, JokerVariant::Single
Undetermined_Single(p) ==
    LET p1 == [p EXCEPT !.tile_seen = AdvanceDist(@, 1), !.size = @ + 1] IN
    IF p1.size > 4
    THEN IF p1.tile_seen # None
         THEN LET ts == p1.tile_seen[1].ts
                  dist == p1.tile_seen[1].dist
              IN  Ret("continue",
                      Parsing_Run(Some(ts.value + dist), Colors_only(ts.color), p1.size))
         ELSE Ret("continue", Parsing_Run(None, Colors_all, p1.size))
    ELSE Ret("continue", p1)

\* Parsing::Undetermined, JokerVariant::Double
Undetermined_Double(p) ==
    LET p1 == [p EXCEPT !.tile_seen = AdvanceDist(@, 2), !.size = @ + 2] IN
    IF p1.size > 4
    THEN IF p1.tile_seen # None
         THEN LET ts == p1.tile_seen[1].ts
                  dist == p1.tile_seen[1].dist
              IN  Ret("continue",
                      Parsing_Run(Some(ts.value + dist - 1), Colors_only(ts.color),
                                  p1.size))
         ELSE Ret("continue", Parsing_Run(None, Colors_all, p1.size))
    ELSE Ret("continue", p1)

\* Parsing::Undetermined, JokerVariant::ColorChange
Undetermined_ColorChange(p) ==
    IF p.tile_seen # None
    THEN LET ts == p.tile_seen[1].ts
         IN  Ret("continue",
                 Parsing_Run(Some(ts.value + 1), Colors_except(ts.color), p.size + 1))
    ELSE Ret("continue", Parsing_Run(None, Colors_all, p.size + 1))

\* Parsing::Undetermined
Undetermined(p, t) ==
    IF IsBasic(t) THEN Undetermined_Basic(p, t)
    ELSE IF t.variant = "Single" THEN Undetermined_Single(p)
    ELSE IF t.variant = "Double" THEN Undetermined_Double(p)
    ELSE IF t.variant = "Mirror" THEN Ret("mirror", p)
    ELSE Undetermined_ColorChange(p)

\* Transition revising the classification: a basic tile of the next value
\* met in Group state starts a run
Transition_Reclassify(p, t) ==
    IF p.state = "Run" THEN Run(p, t)
    ELSE IF p.state = "Group"
    THEN IF IsBasic(t) /\ t.value = p.value + 1
         THEN Ret("continue",
                  Parsing_Run(Some(t.value), Colors_only(t.color), p.size + 1))
         ELSE Group(p, t)
    ELSE Undetermined(p, t)

\* one iteration of `while let Some((index, tile)) = tiles.next()`: match parsing
Transition(p, t) ==
    IF p.state = "Run" THEN Run(p, t)
    ELSE IF p.state = "Group" THEN Group(p, t)
    ELSE Undetermined(p, t)

\* TooShort with the bound off by one (set.len() < 2)
TooShort_OffByOne(s) == Len(s) < 2

\* set.len() < 3
TooShort(s) == Len(s) < 3

----------------------------------------------------------------------------
(* src/parser.rs: _is_symmetric.                                           *)

\* axis == 0 || axis == set.len() - 1
AxisAtEnd(s, a) == a = 0 \/ a = Len(s) - 1

\* the outcome of one `match &set[left]`: ok = FALSE is `return false`;
\* otherwise the flags as the matched arm leaves them
Matched(il, ir, dl, dr) ==
    [ok |-> TRUE, incr_left |-> il, incr_right |-> ir,
     incr_dj_left |-> dl, incr_dj_right |-> dr]

NotSymmetric(dl, dr) ==
    [ok |-> FALSE, incr_left |-> FALSE, incr_right |-> FALSE,
     incr_dj_left |-> dl, incr_dj_right |-> dr]

\* left tile Basic (bl) or Single joker against a Double joker on the right
RightDouble(dl, dr) ==
    IF dr THEN Matched(TRUE, TRUE, dl, FALSE)
    ELSE Matched(TRUE, FALSE, dl, TRUE)

\* Double joker on the left against a Basic tile or a Single joker on the right
LeftDouble(dl, dr) ==
    IF dl THEN Matched(TRUE, TRUE, FALSE, dr)
    ELSE Matched(FALSE, TRUE, TRUE, dr)

\* BothDouble as a direct match: both cursors are released at once and the
\* pending flags stay as they are
BothDouble_Direct(dl, dr) ==
    Matched(TRUE, TRUE, dl, dr)

\* BothDouble setting one pending flag per comparison: two comparisons in a
\* row release no cursor
BothDouble_OneFlagAtATime(dl, dr) ==
    IF ~dl THEN Matched(FALSE, FALSE, TRUE, dr)
    ELSE IF ~dr THEN Matched(FALSE, FALSE, dl, TRUE)
    ELSE Matched(TRUE, TRUE, FALSE, FALSE)

\* Double joker against Double joker: each side toggles its own pending flag
BothDouble(dl, dr) ==
    Matched(dl, dr, ~dl, ~dr)

\* Compare with two basic tiles compared by value alone (bl.value != br.value)
Compare_ValueOnly(l, r, dl, dr) ==
    IF IsBasic(l)
    THEN IF IsBasic(r)
         THEN IF l.value # r.value THEN NotSymmetric(dl, dr)
              ELSE Matched(TRUE, TRUE, dl, dr)
         ELSE IF r.variant = "Single" THEN Matched(TRUE, TRUE, dl, dr)
         ELSE IF r.variant = "Double" THEN RightDouble(dl, dr)
         ELSE NotSymmetric(dl, dr)
    ELSE IF l.variant = "Single"
    THEN IF IsBasic(r) THEN Matched(TRUE, TRUE, dl, dr)
         ELSE IF r.variant = "Single" THEN Matched(TRUE, TRUE, dl, dr)
         ELSE IF r.variant = "Double" THEN RightDouble(dl, dr)
         ELSE NotSymmetric(dl, dr)
    ELSE IF l.variant = "Double"
    THEN IF IsBasic(r) THEN LeftDouble(dl, dr)
         ELSE IF r.variant = "Single" THEN LeftDouble(dl, dr)
         ELSE IF r.variant = "Double" THEN BothDouble(dl, dr)
         ELSE NotSymmetric(dl, dr)
    ELSE IF l.variant = "Mirror"
    THEN NotSymmetric(dl, dr)
    ELSE IF IsJoker(r, "ColorChange") THEN Matched(TRUE, TRUE, dl, dr)
         ELSE NotSymmetric(dl, dr)

\* Compare with a Mirror joker on the right matching a basic tile on the left
Compare_MirrorWildcard(l, r, dl, dr) ==
    IF IsBasic(l)
    THEN IF IsBasic(r)
         THEN IF l # r THEN NotSymmetric(dl, dr) ELSE Matched(TRUE, TRUE, dl, dr)
         ELSE IF r.variant = "Single" THEN Matched(TRUE, TRUE, dl, dr)
         ELSE IF r.variant = "Double" THEN RightDouble(dl, dr)
         ELSE IF r.variant = "Mirror" THEN Matched(TRUE, TRUE, dl, dr)
         ELSE NotSymmetric(dl, dr)
    ELSE IF l.variant = "Single"
    THEN IF IsBasic(r) THEN Matched(TRUE, TRUE, dl, dr)
         ELSE IF r.variant = "Single" THEN Matched(TRUE, TRUE, dl, dr)
         ELSE IF r.variant = "Double" THEN RightDouble(dl, dr)
         ELSE NotSymmetric(dl, dr)
    ELSE IF l.variant = "Double"
    THEN IF IsBasic(r) THEN LeftDouble(dl, dr)
         ELSE IF r.variant = "Single" THEN LeftDouble(dl, dr)
         ELSE IF r.variant = "Double" THEN BothDouble(dl, dr)
         ELSE NotSymmetric(dl, dr)
    ELSE IF l.variant = "Mirror"
    THEN NotSymmetric(dl, dr)
    ELSE IF IsJoker(r, "ColorChange") THEN Matched(TRUE, TRUE, dl, dr)
         ELSE NotSymmetric(dl, dr)

\* Compare with a Single joker on the left facing a basic tile moving the
\* left cursor alone
Compare_SingleLeftOnly(l, r, dl, dr) ==
    IF IsBasic(l)
    THEN IF IsBasic(r)
         THEN IF l # r THEN NotSymmetric(dl, dr) ELSE Matched(TRUE, TRUE, dl, dr)
         ELSE IF r.variant = "Single" THEN Matched(TRUE, TRUE, dl, dr)
         ELSE IF r.variant = "Double" THEN RightDouble(dl, dr)
         ELSE NotSymmetric(dl, dr)
    ELSE IF l.variant = "Single"
    THEN IF IsBasic(r) THEN Matched(TRUE, FALSE, dl, dr)
         ELSE IF r.variant = "Single" THEN Matched(TRUE, TRUE, dl, dr)
         ELSE IF r.variant = "Double" THEN RightDouble(dl, dr)
         ELSE NotSymmetric(dl, dr)
    ELSE IF l.variant = "Double"
    THEN IF IsBasic(r) THEN LeftDouble(dl, dr)
         ELSE IF r.variant = "Single" THEN LeftDouble(dl, dr)
         ELSE IF r.variant = "Double" THEN BothDouble(dl, dr)
         ELSE NotSymmetric(dl, dr)
    ELSE IF l.variant = "Mirror"
    THEN NotSymmetric(dl, dr)
    ELSE IF IsJoker(r, "ColorChange") THEN Matched(TRUE, TRUE, dl, dr)
         ELSE NotSymmetric(dl, dr)

\* Compare with a ColorChange joker on the left matching a basic tile as well
Compare_ColorChangeWildcard(l, r, dl, dr) ==
    IF IsBasic(l)
    THEN IF IsBasic(r)
         THEN IF l # r THEN NotSymmetric(dl, dr) ELSE Matched(TRUE, TRUE, dl, dr)
         ELSE IF r.variant = "Single" THEN Matched(TRUE, TRUE, dl, dr)
         ELSE IF r.variant = "Double" THEN RightDouble(dl, dr)
         ELSE NotSymmetric(dl, dr)
    ELSE IF l.variant = "Single"
    THEN IF IsBasic(r) THEN Matched(TRUE, TRUE, dl, dr)
         ELSE IF r.variant = "Single" THEN Matched(TRUE, TRUE, dl, dr)
         ELSE IF r.variant = "Double" THEN RightDouble(dl, dr)
         ELSE NotSymmetric(dl, dr)
    ELSE IF l.variant = "Double"
    THEN IF IsBasic(r) THEN LeftDouble(dl, dr)
         ELSE IF r.variant = "Single" THEN LeftDouble(dl, dr)
         ELSE IF r.variant = "Double" THEN BothDouble(dl, dr)
         ELSE NotSymmetric(dl, dr)
    ELSE IF l.variant = "Mirror"
    THEN NotSymmetric(dl, dr)
    ELSE IF IsJoker(r, "ColorChange") \/ IsBasic(r)
         THEN Matched(TRUE, TRUE, dl, dr)
         ELSE NotSymmetric(dl, dr)

\* the match of the loop body: l = set[left], r = set[right],
\* dl = incr_dj_left, dr = incr_dj_right
Compare(l, r, dl, dr) ==
    IF IsBasic(l)
    THEN IF IsBasic(r)
         THEN IF l # r THEN NotSymmetric(dl, dr) ELSE Matched(TRUE, TRUE, dl, dr)
         ELSE IF r.variant = "Single" THEN Matched(TRUE, TRUE, dl, dr)
         ELSE IF r.variant = "Double" THEN RightDouble(dl, dr)
         ELSE NotSymmetric(dl, dr)
    ELSE IF l.variant = "Single"
    THEN IF IsBasic(r) THEN Matched(TRUE, TRUE, dl, dr)
         ELSE IF r.variant = "Single" THEN Matched(TRUE, TRUE, dl, dr)
         ELSE IF r.variant = "Double" THEN RightDouble(dl, dr)
         ELSE NotSymmetric(dl, dr)
    ELSE IF l.variant = "Double"
    THEN IF IsBasic(r) THEN LeftDouble(dl, dr)
         ELSE IF r.variant = "Single" THEN LeftDouble(dl, dr)
         ELSE IF r.variant = "Double" THEN BothDouble(dl, dr)
         ELSE NotSymmetric(dl, dr)
    ELSE IF l.variant = "Mirror"
    THEN NotSymmetric(dl, dr)
    ELSE IF IsJoker(r, "ColorChange") THEN Matched(TRUE, TRUE, dl, dr)
         ELSE NotSymmetric(dl, dr)

SymState(l, r, dl, dr) ==
    [left |-> l, right |-> r, incr_dj_left |-> dl, incr_dj_right |-> dr]

SymRet(ret, st) == [ret |-> ret, st |-> st]

\* the tail of the loop body, after a match that did not return:
\* the two boundary `continue`s, the `break`, and the pointer moves.
\* `left -= 1` at left = 0 underflows usize: a panic at once in a debug build,
\* a wrap followed by the out-of-range set[left] in a release build.
Advance(s, st, m) ==
    LET st1 == SymState(st.left, st.right, m.incr_dj_left, m.incr_dj_right) IN
    IF st.left = 0 /\ IsJoker(At(s, st.left), "Double") /\ m.incr_dj_left
    THEN SymRet("continue",
                [st1 EXCEPT !.right = IF m.incr_right THEN @ + 1 ELSE @])
    ELSE IF st.right = Len(s) - 1 /\ IsJoker(At(s, st.right), "Double")
            /\ m.incr_dj_right
    THEN IF m.incr_left
         THEN IF st.left = 0 THEN SymRet("panic", st1)
              ELSE SymRet("continue", [st1 EXCEPT !.left = @ - 1])
         ELSE SymRet("continue", st1)
    ELSE IF st.left = 0 \/ st.right = Len(s) - 1
    THEN SymRet("break", st1)
    ELSE SymRet("continue",
                [st1 EXCEPT !.left = IF m.incr_left THEN @ - 1 ELSE @,
                            !.right = IF m.incr_right THEN @ + 1 ELSE @])

\* one iteration of `loop`: ret is "continue", "break", "false" (return
\* false) or "panic" (set[right] out of range, or the underflow of left).
\* set[left] is read first: a Mirror joker there returns before set[right]
\* is read.
Iterate(s, st) ==
    IF ~InRange(s, st.left) THEN SymRet("panic", st)
    ELSE IF IsJoker(At(s, st.left), "Mirror") THEN SymRet("false", st)
    ELSE IF ~InRange(s, st.right) THEN SymRet("panic", st)
    ELSE LET m == Compare(At(s, st.left), At(s, st.right),
                          st.incr_dj_left, st.incr_dj_right)
         IN  IF ~m.ok THEN SymRet("false", st) ELSE Advance(s, st, m)

\* AtBothEnds with the check after the loop testing the left cursor alone
\* (left != 0)
AtBothEnds_LeftOnly(s, st) == ~(st.left # 0)

\* the check after the loop: left != 0 || right != set.len() - 1
AtBothEnds(s, st) == ~(st.left # 0 \/ st.right # Len(s) - 1)

----------------------------------------------------------------------------
(* The two functions as operators: the value a call returns ("true",       *)
(* "false") or "panic", computed by the same transitions.                  *)

RECURSIVE SymLoop(_, _)
\* the `loop` of _is_symmetric from the state st, and the check after it
SymLoop(s, st) ==
    LET r == Iterate(s, st) IN
    IF r.ret = "continue" THEN SymLoop(s, r.st)
    ELSE IF r.ret = "break"
    THEN IF AtBothEnds(s, r.st) THEN "true" ELSE "false"
    ELSE r.ret

\* _is_symmetric(set, axis)
IsSymmetric(s, a) ==
    IF AxisAtEnd(s, a) THEN "false"
    ELSE SymLoop(s, SymState(a - 1, a + 1, FALSE, FALSE))

RECURSIVE ParseFrom(_, _, _)
\* the while loop of is_valid_set from the tile at index i on, with Parsing value p
ParseFrom(s, p, i) ==
    IF i = Len(s) THEN "true"
    ELSE LET r == Transition(p, At(s, i)) IN
         IF r.ret = "continue" THEN ParseFrom(s, r.parsing, i + 1)
         ELSE IF r.ret = "mirror" THEN IsSymmetric(s, i)
         ELSE r.ret

\* is_valid_set(set)
IsValidSet(s) ==
    IF TooShort(s) THEN "false"
    ELSE ParseFrom(s, Parsing_Undetermined(None, 0), 0)

----------------------------------------------------------------------------
(* The inputs: the tile sequences the calls are made on.                   *)

\* Basic(c, s), Basic(c, s + 1), ..., n tiles
AscendingRun(c, s, n) == [i \in 1..n |-> Basic(c, s + i - 1)]

\* Basic(c, s), Basic(c, s - 1), ..., n tiles
DescendingRun(c, s, n) == [i \in 1..n |-> Basic(c, s - i + 1)]

\* every joker-free ascending run of one colour, of every length
RunInputs ==
    {AscendingRun(c, x[1], x[2]) :
        c \in TileColor,
        x \in {y \in TileValue \X (0..MaxTileValue) : y[1] + y[2] - 1 <= MaxTileValue}}

\* every joker-free descending sequence of one colour, of every length
DescendingInputs ==
    {DescendingRun(c, x[1], x[2]) :
        c \in TileColor,
        x \in {y \in TileValue \X (0..MaxTileValue) : y[1] - y[2] + 1 >= MinTileValue}}

\* the tiles of the mixed family: two colours, three values, every joker
MixedTiles ==
    {Basic("Red", 5), Basic("Red", 6), Basic("Blue", 5), Basic("Blue", 7)}
        \cup {Joker(v) : v \in JokerVariant}

\* the kinds of tile of the run family
RunKinds == {"Basic", "Single", "Double"}

\* the value of the first logical position of a sequence of the run family:
\* below 1 when leading jokers stand before the value 1
RunStarts == (MinTileValue - 3)..MaxTileValue

\* the number of positions a tile of kind k takes in a run
Slots(k) == IF k = "Double" THEN 2 ELSE 1

RECURSIVE PositionOf(_, _)
\* the logical position, from 0, of the i-th tile of the sequence of kinds k
PositionOf(k, i) ==
    IF i = 1 THEN 0 ELSE PositionOf(k, i - 1) + Slots(k[i - 1])

\* the tiles of kinds k in colour c: the basic tile at logical position p has
\* the value start + p, but the one at index d (if any) has e more
RunOf(c, k, start, d, e) ==
    [i \in 1..Len(k) |->
        IF k[i] = "Basic"
        THEN Basic(c, start + PositionOf(k, i) + (IF i = d THEN e ELSE 0))
        ELSE Joker(k[i])]

\* n ColorChange jokers in a row
ColorChanges(n) == [i \in 1..n |-> Joker("ColorChange")]

\* an ascending run of n tiles of colour c from start, k ColorChange jokers,
\* and the basic tile of colour c2 and value w
AcrossColorChange(c, start, n, k, c2, w) ==
    AscendingRun(c, start, n) \o ColorChanges(k) \o <<Basic(c2, w)>>

\* Basic(c, v), a ColorChange joker, and one tile for each entry of cs: a
\* ColorChange joker, or the basic tile of that colour with the value of its
\* position in the run
ColorSegments(c, v, cs) ==
    <<Basic(c, v), Joker("ColorChange")>> \o
        [i \in 1..Len(cs) |->
            IF cs[i] = "ColorChange" THEN Joker("ColorChange")
            ELSE Basic(cs[i], v + 1 + i)]

\* the numbers of tiles of a group
GroupSizes == 3..4

\* the group of the value v in the colours cs
GroupOf(v, cs) == [j \in 1..Len(cs) |-> Basic(cs[j], v)]

\* s with the tile t put in after its first i tiles
InsertAt(s, i, t) == SubSeq(s, 1, i) \o <<t>> \o SubSeq(s, i + 1, Len(s))

\* the numbers of tiles of the group part of a hybrid
HybridGroupSizes == 2..3

\* a group of the value v in the colours cs that goes on as a run of m more
\* tiles in its last colour
GroupThenRun(v, cs, m) == GroupOf(v, cs) \o AscendingRun(cs[Len(cs)], v + 1, m)

\* a run of n tiles of colour c from start that goes on as a group of its
\* last value in the colours cs
RunThenGroup(c, start, n, cs) ==
    AscendingRun(c, start, n) \o GroupOf(start + n - 1, cs)

\* every basic tile of s can be constructed (BasicTile::new does not panic)
Constructible(s) == \A i \in 1..Len(s) : IsBasic(s[i]) => s[i].value \in TileValue

\* the 0-based indices of the Mirror jokers of s
MirrorIndices(s) == {i \in 0..(Len(s) - 1) : IsJoker(At(s, i), "Mirror")}

----------------------------------------------------------------------------
(* The calls.                                                              *)

\* the input of a call: a sequence of one of the families
IsInput(s) ==
    \/ s \in RunInputs
    \/ s \in DescendingInputs
    \/ \E n \in 0..MaxGroupLen, v \in TileValue :
           \E cs \in [1..n -> TileColor] : s = [i \in 1..n |-> Basic(cs[i], v)]
    \/ \E n \in 0..MaxLen : s \in [1..n -> MixedTiles]
    \/ \E n \in 0..MaxRunLen : \E k \in [1..n -> RunKinds] :
           \E start \in RunStarts, d \in 0..n, e \in {-1, 1} :
               \E c \in TileColor : s = RunOf(c, k, start, d, e) /\ Constructible(s)
    \/ \E c, c2 \in TileColor, start, w \in TileValue :
           \E n \in 1..MaxPrefixLen, k \in 1..2 :
               /\ start + n - 1 <= MaxTileValue
               /\ s = AcrossColorChange(c, start, n, k, c2, w)
    \/ \E n \in GroupSizes, v \in TileValue :
           \E cs \in [1..n -> TileColor], i \in 0..n :
               /\ \A j, k \in 1..n : cs[j] = cs[k] => j = k
               /\ s = InsertAt(GroupOf(v, cs), i, Joker("ColorChange"))
    \/ \E k \in HybridGroupSizes, v \in TileValue, m \in 1..MaxPrefixLen :
           \E cs \in [1..k -> TileColor] :
               s = GroupThenRun(v, cs, m) /\ Constructible(s)
    \/ \E c \in TileColor, start \in TileValue :
           \E n \in 2..MaxPrefixLen, k \in 1..2 : \E cs \in [1..k -> TileColor] :
               s = RunThenGroup(c, start, n, cs) /\ Constructible(s)
    \/ \E c \in TileColor, v \in TileValue, m \in 0..MaxTailLen :
           \E cs \in [1..m -> TileColor \cup {"ColorChange"}] :
               s = ColorSegments(c, v, cs) /\ Constructible(s)

\* is_valid_set(&set) on any input; _is_symmetric(&set, axis) on its
\* contract: at least 3 tiles and a Mirror joker at axis
Init ==
    /\ IsInput(set)
    /\ args = None
    /\ output = None
    /\ \/ /\ entry = "is_valid_set"
          /\ axis = 0
       \/ /\ entry = "_is_symmetric"
          /\ Len(set) >= 3
          /\ axis \in MirrorIndices(set)
    /\ pc = entry
    /\ index = 0
    /\ parsing = Parsing_Undetermined(None, 0)
    /\ left = 0
    /\ right = 0
    /\ incr_dj_left = FALSE
    /\ incr_dj_right = FALSE
    /\ result = "none"

Return(r) ==
    /\ pc' = "done"
    /\ result' = r

symVars == <<axis, left, right, incr_dj_left, incr_dj_right>>

\* is_valid_set: the length check and the initial Parsing::Undetermined
IsValidSet_Enter ==
    /\ pc = "is_valid_set"
    /\ IF TooShort(set)
       THEN /\ Return("false")
            /\ UNCHANGED <<parsing, index>>
       ELSE /\ pc' = "loop"
            /\ parsing' = Parsing_Undetermined(None, 0)
            /\ index' = 0
            /\ UNCHANGED result
    /\ UNCHANGED <<set, entry, args, output, symVars>>

\* Parse with the Mirror arm calling `_is_symmetric(&set, index);` without
\* `return`: the verdict is dropped and the loop goes on
Parse_MirrorNotReturned ==
    /\ pc = "loop"
    /\ index < Len(set)
    /\ LET r == Transition(parsing, At(set, index)) IN
       /\ parsing' = r.parsing
       /\ IF r.ret = "continue" \/ r.ret = "mirror"
          THEN /\ index' = index + 1
               /\ UNCHANGED <<pc, result, axis>>
          ELSE /\ Return(r.ret)
               /\ UNCHANGED <<index, axis>>
    /\ UNCHANGED <<set, entry, args, output, left, right, incr_dj_left, incr_dj_right>>

\* Parse with `return false` of the state machine dropped: the rejected tile
\* is skipped and the loop goes on
Parse_RejectionSkipped ==
    /\ pc = "loop"
    /\ index < Len(set)
    /\ LET r == Transition(parsing, At(set, index)) IN
       /\ parsing' = r.parsing
       /\ IF r.ret = "continue" \/ r.ret = "false"
          THEN /\ index' = index + 1
               /\ UNCHANGED <<pc, result, axis>>
          ELSE IF r.ret = "mirror"
          THEN /\ pc' = "_is_symmetric"
               /\ axis' = index
               /\ UNCHANGED <<index, result>>
          ELSE /\ Return(r.ret)
               /\ UNCHANGED <<index, axis>>
    /\ UNCHANGED <<set, entry, args, output, left, right, incr_dj_left, incr_dj_right>>

\* is_valid_set: one iteration of the while loop
Parse ==
    /\ pc = "loop"
    /\ index < Len(set)
    /\ LET r == Transition(parsing, At(set, index)) IN
       /\ parsing' = r.parsing
       /\ IF r.ret = "continue"
          THEN /\ index' = index + 1
               /\ UNCHANGED <<pc, result, axis>>
          ELSE IF r.ret = "mirror"
          THEN /\ pc' = "_is_symmetric"
               /\ axis' = index
               /\ UNCHANGED <<index, result>>
          ELSE /\ Return(r.ret)
               /\ UNCHANGED <<index, axis>>
    /\ UNCHANGED <<set, entry, args, output, left, right, incr_dj_left, incr_dj_right>>

\* is_valid_set: the iterator is exhausted, `return true`
IsValidSet_ReturnTrue ==
    /\ pc = "loop"
    /\ index = Len(set)
    /\ Return("true")
    /\ UNCHANGED <<set, entry, args, output, index, parsing, symVars>>

\* _is_symmetric: the axis check and the initial pointers and flags
IsSymmetric_Enter ==
    /\ pc = "_is_symmetric"
    /\ IF AxisAtEnd(set, axis)
       THEN /\ Return("false")
            /\ UNCHANGED <<left, right, incr_dj_left, incr_dj_right>>
       ELSE /\ pc' = "sym_loop"
            /\ left' = axis - 1
            /\ right' = axis + 1
            /\ incr_dj_left' = FALSE
            /\ incr_dj_right' = FALSE
            /\ UNCHANGED result
    /\ UNCHANGED <<set, entry, args, output, index, parsing, axis>>

\* _is_symmetric: one iteration of `loop`
IsSymmetric_Loop ==
    /\ pc = "sym_loop"
    /\ LET r == Iterate(set, SymState(left, right, incr_dj_left, incr_dj_right)) IN
       /\ left' = r.st.left
       /\ right' = r.st.right
       /\ incr_dj_left' = r.st.incr_dj_left
       /\ incr_dj_right' = r.st.incr_dj_right
       /\ IF r.ret = "continue" THEN UNCHANGED <<pc, result>>
          ELSE IF r.ret = "break" THEN pc' = "sym_exit" /\ UNCHANGED result
          ELSE Return(r.ret)
    /\ UNCHANGED <<set, entry, args, output, index, parsing, axis>>

\* _is_symmetric: the check after the loop
IsSymmetric_Exit ==
    /\ pc = "sym_exit"
    /\ Return(IF AtBothEnds(set, SymState(left, right, incr_dj_left, incr_dj_right))
              THEN "true" ELSE "false")
    /\ UNCHANGED <<set, entry, args, output, index, parsing, symVars>>

Next ==
    \/ IsValidSet_Enter
    \/ Parse
    \/ IsValidSet_ReturnTrue
    \/ IsSymmetric_Enter
    \/ IsSymmetric_Loop
    \/ IsSymmetric_Exit

Spec == Init /\ [][Next]_vars

----------------------------------------------------------------------------
(* Vocabulary of the properties.                                           *)

Done == pc = "done"

\* a finished call of is_valid_set
ValidSetDone == entry = "is_valid_set" /\ Done

\* a finished call of _is_symmetric(set, axis): made directly, or by
\* is_valid_set at the Mirror joker at index
SymDone ==
    /\ Done
    /\ \/ entry = "_is_symmetric"
       \/ /\ ~TooShort(set)
          /\ index < Len(set) /\ IsJoker(At(set, index), "Mirror") /\ axis = index

\* the index of the first Mirror joker of s
FirstMirror(s) ==
    CHOOSE i \in MirrorIndices(s) : \A j \in MirrorIndices(s) : i <= j

\* the while loop of is_valid_set passes every tile before index a
PrefixAccepted(s, a) ==
    ParseFrom(SubSeq(s, 1, a), Parsing_Undetermined(None, 0), 0) = "true"

\* every tile of s but the one at index a is a basic tile
AllBasicBut(s, a) == \A i \in 0..(Len(s) - 1) : i = a \/ IsBasic(At(s, i))

\* a is the middle index and the tiles at a - k and a + k are equal
PalindromeAround(s, a) ==
    /\ 2 * a = Len(s) - 1
    /\ \A k \in 1..a : At(s, a - k) = At(s, a + k)

\* no tile of s is a joker
JokerFree(s) == \A i \in 1..Len(s) : IsBasic(s[i])

\* no tile of s is a Mirror joker
MirrorFree(s) == MirrorIndices(s) = {}

\* joker-free, one colour, each value one more than the one before
IsAscendingRun(s) ==
    /\ JokerFree(s)
    /\ \A i \in 1..(Len(s) - 1) :
           s[i + 1].color = s[i].color /\ s[i + 1].value = s[i].value + 1

\* joker-free, one colour, each value one less than the one before
IsDescendingRun(s) ==
    /\ JokerFree(s)
    /\ \A i \in 1..(Len(s) - 1) :
           s[i + 1].color = s[i].color /\ s[i + 1].value = s[i].value - 1

\* joker-free and every tile of the value of the first
SameValue(s) ==
    /\ JokerFree(s)
    /\ \A i \in 1..Len(s) : s[i].value = s[1].value

\* some colour occurs at two positions of the joker-free s
RepeatsColor(s) ==
    \E i, j \in 1..Len(s) : i < j /\ s[i].color = s[j].color

\* Basic, Single = 1, Double = 2 (and ColorChange, Mirror = 1)
LogicalSize(s) ==
    Len(s) + Cardinality({i \in 1..Len(s) : IsJoker(s[i], "Double")})

\* two basic tiles of s have one value and different colours
HasGroupPair(s) ==
    \E i, j \in 1..Len(s) :
        /\ IsBasic(s[i]) /\ IsBasic(s[j])
        /\ s[i].value = s[j].value /\ s[i].color # s[j].color

----------------------------------------------------------------------------
(* C1: for every sequence of tiles with values in 1..13, of any length and *)
(* any mix of jokers, is_valid_set returns true or false: it never aborts. *)
C1_NeverAborts == entry = "is_valid_set" => result # "panic"

(* C2: on every sequence of fewer than 3 tiles (a Double joker counts as   *)
(* one tile) is_valid_set returns false.                                   *)
C2_ShortIsInvalid == (ValidSetDone /\ Len(set) < 3) => result = "false"

\* a two-tile sequence with a Double joker (logical size 3) was rejected
C2_Witness ==
    /\ ValidSetDone /\ Len(set) = 2 /\ result = "false"
    /\ \E i \in 1..2 : IsJoker(set[i], "Double")

(* C3: is_valid_set returns true on every joker-free ascending run of one  *)
(* colour with at least 3 tiles and values up to 13.                       *)
C3_AscendingRunValid ==
    (ValidSetDone /\ Len(set) >= 3 /\ IsAscendingRun(set)) => result = "true"

\* the full run 1..13 of a colour was accepted
C3_Witness ==
    /\ ValidSetDone /\ IsAscendingRun(set) /\ Len(set) = MaxTileValue
    /\ result = "true"

(* C4: is_valid_set returns false on every joker-free sequence of at least *)
(* 3 tiles of one colour whose values decrease by one at each step.        *)
C4_DescendingRunInvalid ==
    (ValidSetDone /\ Len(set) >= 3 /\ IsDescendingRun(set)) => result = "false"

\* a descending sequence of 3 tiles was rejected
C4_Witness ==
    /\ ValidSetDone /\ IsDescendingRun(set) /\ Len(set) = 3
    /\ result = "false"

(* C5: is_valid_set returns true on every joker-free sequence of 3 or 4    *)
(* basic tiles of one value (1..13) in pairwise distinct colours, in any   *)
(* order.                                                                  *)
C5_PureGroupValid ==
    (ValidSetDone /\ Len(set) \in {3, 4} /\ SameValue(set) /\ ~RepeatsColor(set))
        => result = "true"

\* a group of all 4 colours was accepted
C5_Witness ==
    /\ ValidSetDone /\ Len(set) = 4 /\ SameValue(set) /\ ~RepeatsColor(set)
    /\ result = "true"

(* C6: is_valid_set returns false on every joker-free sequence of 3 or 4   *)
(* basic tiles of one value in which some colour occurs twice, at any two  *)
(* positions.                                                              *)
C6_RepeatedColorInvalid ==
    (ValidSetDone /\ Len(set) \in {3, 4} /\ SameValue(set) /\ RepeatsColor(set))
        => result = "false"

(* C7: is_valid_set returns false on every Mirror-free sequence that holds *)
(* two basic tiles of one value and different colours and whose logical    *)
(* size is greater than 4; and while the parser is in Group state,         *)
(* 2 <= size <= 4.                                                         *)
C7_GroupAtMostFour ==
    /\ (ValidSetDone /\ MirrorFree(set) /\ HasGroupPair(set) /\ LogicalSize(set) > 4)
           => result = "false"
    /\ (pc = "loop" /\ parsing.state = "Group")
           => (2 <= parsing.size /\ parsing.size <= 4)

(* C8: on every sequence of at least 3 tiles that contains a Mirror joker, *)
(* is_valid_set returns true if and only if _is_symmetric about the        *)
(* Mirror's index accepts it, whatever the other tiles are.                *)
C8_MirrorIffSymmetric ==
    (ValidSetDone /\ Len(set) >= 3 /\ ~MirrorFree(set))
        => (result = "true" <=> IsSymmetric(set, FirstMirror(set)) = "true")

(* C8, amended: on every sequence of at least 3 tiles that contains a      *)
(* Mirror joker, is_valid_set returns true if and only if the state        *)
(* machine passes every tile before the first Mirror without rejecting or  *)
(* aborting and _is_symmetric about the first Mirror's index returns true. *)
C8_MirrorAfterAcceptedPrefix ==
    (ValidSetDone /\ Len(set) >= 3 /\ ~MirrorFree(set))
        => (result = "true" <=>
                /\ PrefixAccepted(set, FirstMirror(set))
                /\ IsSymmetric(set, FirstMirror(set)) = "true")

\* a 5-tile sequence with its first Mirror in the middle was accepted
C8_Witness ==
    /\ ValidSetDone /\ Len(set) = 5 /\ ~MirrorFree(set)
    /\ FirstMirror(set) = 2 /\ IsBasic(At(set, 0)) /\ result = "true"

(* C9: if the first Mirror joker is at index 0 or at the last index,       *)
(* is_valid_set returns false; _is_symmetric returns false for such an     *)
(* axis at once, before its loop reads any tile.                           *)
C9_MirrorAtEndInvalid ==
    /\ (ValidSetDone /\ ~MirrorFree(set) /\ AxisAtEnd(set, FirstMirror(set)))
           => result = "false"
    /\ (SymDone /\ AxisAtEnd(set, axis)) => result = "false"
    /\ pc \in {"sym_loop", "sym_exit"} => ~AxisAtEnd(set, axis)

(* C10: on a sequence whose tiles are all basic but one Mirror joker at    *)
(* index a, _is_symmetric(sequence, a) returns true if and only if a is    *)
(* the middle index and the tiles at a - k and a + k have the same colour  *)
(* and value for every k >= 1.                                             *)
C10_BasicPalindrome ==
    (SymDone /\ AllBasicBut(set, axis))
        => (result = "true" <=> PalindromeAround(set, axis))

\* a 5-tile palindrome of two different basic tiles around the Mirror was accepted
C10_Witness ==
    /\ SymDone /\ AllBasicBut(set, axis) /\ Len(set) = 5
    /\ At(set, 0) # At(set, 1) /\ result = "true"

----------------------------------------------------------------------------
(* Runs with Single and Double jokers: the reference the parser is held to.*)

\* no tile of s is a joker of the variant v
Without(s, v) == \A i \in 1..Len(s) : ~IsJoker(s[i], v)

\* the indices (from 1) of the basic tiles of s
BasicIndices(s) == {i \in 1..Len(s) : IsBasic(s[i])}

\* all basic tiles of s have one colour
OneColor(s) == \A i, j \in BasicIndices(s) : s[i].color = s[j].color

\* the logical position, from 0, of the tile s[i]
Position(s, i) == LogicalSize(SubSeq(s, 1, i - 1))

\* s is a run from the value start: every basic tile has the value of its
\* logical position and the last logical position has a value up to 13
RunFrom(s, start) ==
    /\ \A i \in BasicIndices(s) : s[i].value = start + Position(s, i)
    /\ start + LogicalSize(s) - 1 <= MaxTileValue

\* s is a run from some start value >= 1
IsRun(s) == \E start \in TileValue : RunFrom(s, start)

(* C11: on every sequence of at least 3 tiles with no Mirror and no        *)
(* ColorChange joker and at least two basic tiles, all of one colour,      *)
(* is_valid_set returns true if and only if the sequence is a run from     *)
(* some start value >= 1: every basic tile has the value of its logical    *)
(* position (Basic, Single = 1 position, Double = 2) and the last logical  *)
(* position has a value <= 13.                                             *)
C11_RunReference ==
    (/\ ValidSetDone /\ Len(set) >= 3
     /\ Without(set, "Mirror") /\ Without(set, "ColorChange")
     /\ Cardinality(BasicIndices(set)) >= 2 /\ OneColor(set))
        => (result = "true" <=> IsRun(set))

\* the index (from 1) of the first and of the last basic tile of s
FirstBasic(s) == CHOOSE i \in BasicIndices(s) : \A j \in BasicIndices(s) : i <= j

LastBasic(s) == CHOOSE i \in BasicIndices(s) : \A j \in BasicIndices(s) : j <= i

RECURSIVE JokerSlots(_)
\* the logical positions the Single and Double jokers of s take
JokerSlots(s) ==
    IF s = <<>> THEN 0
    ELSE (IF IsJoker(Head(s), "Single") THEN 1
          ELSE IF IsJoker(Head(s), "Double") THEN 2 ELSE 0) + JokerSlots(Tail(s))

\* the logical positions of the Single and Double jokers before the first
\* basic tile of s
LeadingSlots(s) == JokerSlots(SubSeq(s, 1, FirstBasic(s) - 1))

(* C12: on every Mirror-free sequence that the parser classifies as a run, *)
(* if the Single and Double jokers before the first basic tile take at     *)
(* least as many logical positions as that tile's value (the run would     *)
(* start below 1), is_valid_set returns false, also when the sequence ends *)
(* right after the second basic tile.                                      *)
C12_StartNotBelowOne ==
    (/\ ValidSetDone /\ MirrorFree(set) /\ BasicIndices(set) # {}
     /\ parsing.state = "Run"
     /\ LeadingSlots(set) >= set[FirstBasic(set)].value)
        => result = "false"

\* s can only be read as a run: it holds a ColorChange joker, or more than
\* 4 logical positions, or two basic tiles and all of them of one colour
RunShaped(s) ==
    \/ ~Without(s, "ColorChange")
    \/ LogicalSize(s) > 4
    \/ Cardinality(BasicIndices(s)) >= 2 /\ OneColor(s)

\* no tile after the last basic tile of s is a basic tile or a Mirror; the
\* value they give the last logical position
ImpliedLastValue(s) ==
    s[LastBasic(s)].value + LogicalSize(SubSeq(s, LastBasic(s) + 1, Len(s)))

(* C13: in every Run state reached by a tile that was not rejected,        *)
(* last_value, when known, is at most 13, whichever transition produced or *)
(* updated it; and is_valid_set returns false on every Mirror-free run     *)
(* whose trailing Single, Double or ColorChange jokers imply a value       *)
(* above 13.                                                               *)
C13_RunWithinThirteen ==
    /\ (pc = "loop" /\ parsing.state = "Run" /\ parsing.last_value # None)
           => parsing.last_value[1] <= MaxTileValue
    /\ (/\ ValidSetDone /\ MirrorFree(set) /\ BasicIndices(set) # {}
        /\ RunShaped(set) /\ ImpliedLastValue(set) > MaxTileValue)
           => result = "false"

\* s is a joker-free ascending run of one colour with at least one tile, a
\* ColorChange joker, and a basic tile
OneColorChange(s) ==
    /\ Len(s) >= 3
    /\ IsBasic(s[Len(s)]) /\ IsJoker(s[Len(s) - 1], "ColorChange")
    /\ IsAscendingRun(SubSeq(s, 1, Len(s) - 2))

(* C14: on a joker-free ascending run of one or more tiles of colour c     *)
(* ending at the value v <= 11, followed by a ColorChange joker and        *)
(* Basic(c2, w), is_valid_set returns true if and only if c2 # c and       *)
(* w = v + 2.                                                              *)
C14_AcrossOneColorChange ==
    (/\ ValidSetDone /\ OneColorChange(set)
     /\ set[Len(set) - 2].value <= MaxTileValue - 2)
        => (result = "true" <=>
                /\ set[Len(set)].color # set[Len(set) - 2].color
                /\ set[Len(set)].value = set[Len(set) - 2].value + 2)

\* a run of 3 tiles, a ColorChange joker and a tile of another colour were
\* accepted
C14_Witness ==
    /\ ValidSetDone /\ OneColorChange(set) /\ Len(set) = 5
    /\ set[Len(set) - 2].value <= MaxTileValue - 2
    /\ result = "true"

\* the tiles the state machine parses: all of a Mirror-free s, else the
\* tiles before the first Mirror joker
ParsedPart(s) == IF MirrorFree(s) THEN s ELSE SubSeq(s, 1, FirstMirror(s))

\* two basic tiles of different colours stand after a ColorChange joker of s
\* with no ColorChange joker between them
TwoColorSegment(s) ==
    \E i, j, k \in 1..Len(s) :
        /\ i < j /\ j < k
        /\ IsJoker(s[i], "ColorChange") /\ IsBasic(s[j]) /\ IsBasic(s[k])
        /\ \A m \in (j + 1)..(k - 1) : ~IsJoker(s[m], "ColorChange")
        /\ s[k].color # s[j].color

(* C15: after a ColorChange joker in a run, once the next basic tile, of   *)
(* colour c2, is accepted, every later basic tile up to the next           *)
(* ColorChange or Mirror joker has colour c2, or is_valid_set returns      *)
(* false: a run segment between colour changes has one colour.             *)
C15_SegmentOneColor ==
    (ValidSetDone /\ Len(set) >= 3 /\ TwoColorSegment(ParsedPart(set)))
        => result = "false"

\* s is a basic tile, two ColorChange jokers and a basic tile
TwoColorChanges(s) ==
    /\ Len(s) = 4
    /\ IsBasic(s[1]) /\ IsBasic(s[4])
    /\ IsJoker(s[2], "ColorChange") /\ IsJoker(s[3], "ColorChange")

(* C16: on Basic(c, v) with v <= 10, two adjacent ColorChange jokers and   *)
(* Basic(c2, w), is_valid_set returns true if and only if w = v + 3, for   *)
(* every colour c2, c2 = c included.                                       *)
C16_AdjacentColorChanges ==
    (ValidSetDone /\ TwoColorChanges(set) /\ set[1].value <= MaxTileValue - 3)
        => (result = "true" <=> set[4].value = set[1].value + 3)

\* a tile, two ColorChange jokers and a tile of the first one's colour were
\* accepted
C16_Witness ==
    /\ ValidSetDone /\ TwoColorChanges(set) /\ set[1].value <= MaxTileValue - 3
    /\ set[4].color = set[1].color /\ result = "true"

\* s without its i-th tile
RemoveAt(s, i) == SubSeq(s, 1, i - 1) \o SubSeq(s, i + 1, Len(s))

\* s is a joker-free group of 3 or 4 tiles (one value, pairwise distinct
\* colours) with one ColorChange joker put in at some position
GroupWithColorChange(s) ==
    \E i \in 1..Len(s) :
        /\ IsJoker(s[i], "ColorChange")
        /\ Len(RemoveAt(s, i)) \in GroupSizes
        /\ SameValue(RemoveAt(s, i)) /\ ~RepeatsColor(RemoveAt(s, i))

\* the loop of is_valid_set is at a ColorChange joker in Group state
ColorChangeInGroup ==
    /\ pc = "loop" /\ parsing.state = "Group"
    /\ index < Len(set) /\ IsJoker(At(set, index), "ColorChange")

(* C17: whenever a ColorChange joker is processed in Group state,          *)
(* is_valid_set returns false at that tile; and is_valid_set returns false *)
(* on every valid joker-free group of 3 or 4 tiles with a ColorChange      *)
(* joker put in at any position.                                           *)
C17_NoColorChangeInGroup ==
    /\ [][ColorChangeInGroup => (pc' = "done" /\ result' = "false")]_vars
    /\ []((ValidSetDone /\ GroupWithColorChange(set)) => result = "false")

\* a group of 4 with a ColorChange joker after its first two tiles was
\* rejected at the joker, in Group state
C17_Witness ==
    /\ ValidSetDone /\ GroupWithColorChange(set) /\ Len(set) = 5
    /\ parsing.state = "Group" /\ IsJoker(At(set, index), "ColorChange")
    /\ result = "false"

\* s has one value in pairwise distinct colours
DistinctGroup(s) == SameValue(s) /\ ~RepeatsColor(s)

\* the joker-free s starts as a group of at least 2 tiles and goes on from
\* the last of them as an ascending run, or starts as an ascending run of at
\* least 2 tiles and goes on from the last of them as a group
IsHybrid(s) ==
    /\ JokerFree(s)
    /\ \E i \in 2..(Len(s) - 1) :
           \/ DistinctGroup(SubSeq(s, 1, i)) /\ IsAscendingRun(SubSeq(s, i, Len(s)))
           \/ IsAscendingRun(SubSeq(s, 1, i)) /\ DistinctGroup(SubSeq(s, i, Len(s)))

(* C18: during one is_valid_set call the parse state starts Undetermined   *)
(* and changes at most once, to Run or to Group: no step takes it from Run *)
(* to another state or from Group to another state; and a sequence that    *)
(* starts as a group and goes on as a run, or the reverse, is rejected.    *)
C18_ClassifiedOnce ==
    /\ [](pc = "is_valid_set" => parsing.state = "Undetermined")
    /\ [][/\ parsing.state = "Run" => parsing'.state = "Run"
          /\ parsing.state = "Group" => parsing'.state = "Group"]_vars
    /\ []((ValidSetDone /\ IsHybrid(set)) => result = "false")

\* a group of 3 going on as a run of 2 more tiles was rejected in Group state
C18_Witness ==
    /\ ValidSetDone /\ IsHybrid(set) /\ Len(set) = 5
    /\ parsing.state = "Group" /\ parsing.size = 3 /\ result = "false"

(* C19: is_valid_set never returns true on a sequence that holds two or    *)
(* more Mirror jokers, wherever they are.                                  *)
C19_TwoMirrorsInvalid ==
    (ValidSetDone /\ Cardinality(MirrorIndices(set)) >= 2) => result # "true"

\* the scan about the first Mirror joker matched a pair of tiles and then met
\* the second Mirror joker on its right, facing a basic tile: rejected
C19_Witness ==
    /\ ValidSetDone /\ Cardinality(MirrorIndices(set)) >= 2
    /\ right > axis + 1 /\ InRange(set, right) /\ IsJoker(At(set, right), "Mirror")
    /\ IsBasic(At(set, left))
    /\ result = "false"

\* one of the tiles l, r is a Single joker and the other a basic tile or a
\* Single joker
SinglePair(l, r) ==
    \/ IsJoker(l, "Single") /\ (IsBasic(r) \/ IsJoker(r, "Single"))
    \/ IsJoker(r, "Single") /\ (IsBasic(l) \/ IsJoker(l, "Single"))

\* the loop of _is_symmetric is about to compare such a pair
AtSinglePair ==
    /\ pc = "sym_loop" /\ InRange(set, left) /\ InRange(set, right)
    /\ SinglePair(At(set, left), At(set, right))

\* a cursor of _is_symmetric is at its end of the sequence
AtBoundary == left = 0 \/ right = Len(set) - 1

(* C20: in _is_symmetric, whenever one cursor points at a Single joker and *)
(* the other at a basic tile or a Single joker, the pair matches and both  *)
(* cursors advance one step, whichever side the joker is on and whatever   *)
(* the basic tile is.                                                      *)
C20_SingleWildcardAdvances ==
    [][AtSinglePair =>
           (result' = "none" /\ left' = left - 1 /\ right' = right + 1)]_vars

(* C20, amended: whenever one cursor points at a Single joker and the      *)
(* other at a basic tile or a Single joker, the pair matches (the call     *)
(* does not return on it and the pending flags stay as they are); both     *)
(* cursors then advance one step, unless a cursor is at index 0 or at the  *)
(* last index: there the loop ends with both cursors in place.             *)
C20_SingleWildcardUnlessBoundary ==
    [][AtSinglePair =>
           /\ result' = "none"
           /\ UNCHANGED <<incr_dj_left, incr_dj_right>>
           /\ IF AtBoundary
              THEN pc' = "sym_exit" /\ left' = left /\ right' = right
              ELSE pc' = "sym_loop" /\ left' = left - 1 /\ right' = right + 1]_vars

\* a Single joker left of the axis and a basic tile right of it were
\* compared first, and both cursors moved on
C20_Witness ==
    /\ pc = "sym_loop" /\ left = axis - 2 /\ right = axis + 2
    /\ IsJoker(At(set, axis - 1), "Single") /\ IsBasic(At(set, axis + 1))

\* one of the tiles l, r is a Double joker and the other a basic tile or a
\* Single joker
DoublePair(l, r) ==
    \/ IsJoker(l, "Double") /\ (IsBasic(r) \/ IsJoker(r, "Single"))
    \/ IsJoker(r, "Double") /\ (IsBasic(l) \/ IsJoker(l, "Single"))

\* the loop of _is_symmetric is about to compare such a pair
AtDoublePair ==
    /\ pc = "sym_loop" /\ InRange(set, left) /\ InRange(set, right)
    /\ DoublePair(At(set, left), At(set, right))

\* the Double joker of the pair under the cursors is the left tile
DoubleOnLeft == IsJoker(At(set, left), "Double")

\* the pending flag of the side of the Double joker
Pending == IF DoubleOnLeft THEN incr_dj_left ELSE incr_dj_right

\* the first comparison of a Double joker: its side becomes pending, its
\* cursor stays and the other cursor moves one step
FirstOfTwo ==
    /\ result' = "none" /\ pc' = "sym_loop"
    /\ IF DoubleOnLeft
       THEN /\ incr_dj_left' /\ incr_dj_right' = incr_dj_right
            /\ left' = left /\ right' = right + 1
       ELSE /\ incr_dj_right' /\ incr_dj_left' = incr_dj_left
            /\ right' = right /\ left' = left - 1

\* the second comparison of a Double joker: the pending flag of its side is
\* cleared
SecondOfTwo ==
    /\ result' = "none"
    /\ IF DoubleOnLeft
       THEN ~incr_dj_left' /\ incr_dj_right' = incr_dj_right
       ELSE ~incr_dj_right' /\ incr_dj_left' = incr_dj_left

(* C21: in _is_symmetric a Double joker facing basic tiles or Single       *)
(* jokers is matched against two consecutive tiles of the other side: on   *)
(* the first comparison its side is marked pending and only the other      *)
(* cursor advances; on the next comparison, of the same Double joker, the  *)
(* pending flag is cleared and both cursors advance.                       *)
C21_DoubleTakesTwo ==
    [][AtDoublePair =>
           IF ~Pending THEN FirstOfTwo
           ELSE /\ SecondOfTwo
                /\ left' = left - 1 /\ right' = right + 1]_vars

\* the Double joker of the pair under the cursors is the outermost tile of
\* its side
DoubleAtBoundary ==
    IF DoubleOnLeft THEN left = 0 ELSE right = Len(set) - 1

\* l and r are basic tiles or Single jokers, equal when both are basic
WildMatch(l, r) ==
    /\ IsBasic(l) \/ IsJoker(l, "Single")
    /\ IsBasic(r) \/ IsJoker(r, "Single")
    /\ (IsBasic(l) /\ IsBasic(r)) => l = r

\* the outermost tile of one side of the axis a is a Double joker, the other
\* side is one tile longer and ends in two basic tiles or Single jokers, and
\* the tiles between match pairwise
OuterDoubleFacingTwo(s, a) ==
    LET n == Len(s) IN
    \/ /\ a = n - a /\ a >= 2
       /\ IsJoker(At(s, n - 1), "Double")
       /\ \A k \in 1..(a - 2) : WildMatch(At(s, a - k), At(s, a + k))
       /\ WildMatch(At(s, 0), At(s, 0)) /\ WildMatch(At(s, 1), At(s, 1))
    \/ /\ n - 1 - a = a + 1 /\ a >= 1
       /\ IsJoker(At(s, 0), "Double")
       /\ \A k \in 1..(a - 1) : WildMatch(At(s, a - k), At(s, a + k))
       /\ WildMatch(At(s, n - 1), At(s, n - 1))
       /\ WildMatch(At(s, n - 2), At(s, n - 2))

\* the first comparison of a Double joker that is the outermost tile of its
\* side leaves the scan running
C22_FirstComparison ==
    AtDoublePair /\ ~Pending /\ DoubleAtBoundary
        => result' = "none" /\ pc' = "sym_loop"

\* a scan that goes on with a pending Double joker at index 0 or at the last
\* index has a tile of the other side to compare it with
C22_SecondComparison ==
    /\ pc = "sym_loop"
    /\ \/ left = 0 /\ IsJoker(At(set, 0), "Double") /\ incr_dj_left
       \/ right = Len(set) - 1 /\ IsJoker(At(set, right), "Double")
              /\ incr_dj_right
    => InRange(set, left) /\ InRange(set, right)

\* an outermost Double joker facing two remaining matching tiles is reported
\* symmetric
C22_Example ==
    SymDone /\ Len(set) >= 3 /\ IsJoker(At(set, axis), "Mirror")
            /\ OuterDoubleFacingTwo(set, axis)
        => result = "true"

(* C22: a pending Double joker at index 0 or at the last index does not    *)
(* end the scan: _is_symmetric performs its second comparison against the  *)
(* next tile of the other side before it terminates, so a sequence whose   *)
(* outermost tile on one side is a Double joker facing two remaining       *)
(* matching tiles on the other side (3 J 5 | 5 DJ) is reported symmetric.  *)
C22_BoundaryDoubleGoesOn ==
    /\ [][C22_FirstComparison]_vars
    /\ []C22_SecondComparison
    /\ []C22_Example

\* the loop of _is_symmetric is about to compare two Double jokers
AtBothDouble ==
    /\ pc = "sym_loop" /\ InRange(set, left) /\ InRange(set, right)
    /\ IsJoker(At(set, left), "Double") /\ IsJoker(At(set, right), "Double")

(* C23: in _is_symmetric, when both cursors point at Double jokers the     *)
(* pair matches directly: both cursors advance in that same comparison     *)
(* step and no pending flag is set or needed.                              *)
C23_DoublesMatchDirectly ==
    [][AtBothDouble =>
           /\ result' = "none"
           /\ left' = left - 1 /\ right' = right + 1
           /\ ~incr_dj_left' /\ ~incr_dj_right']_vars

(* C23, amended: when both cursors point at Double jokers the comparison   *)
(* never returns false, and each side toggles its own pending flag: a side *)
(* that was not pending becomes pending and its cursor stays; a side that  *)
(* was pending is cleared, and its cursor advances one step unless a       *)
(* cursor is at index 0 or at the last index.                              *)
C23_DoublesToggle ==
    [][AtBothDouble =>
           /\ result' # "false"
           /\ incr_dj_left' = ~incr_dj_left
           /\ incr_dj_right' = ~incr_dj_right
           /\ ~incr_dj_left => left' = left
           /\ ~incr_dj_right => right' = right
           /\ (incr_dj_left /\ ~AtBoundary) => left' = left - 1
           /\ (incr_dj_right /\ ~AtBoundary) => right' = right + 1]_vars

\* two Double jokers next to the axis took two comparisons: the pending
\* flags are clear again and both cursors have moved on
C23_Witness ==
    /\ pc = "sym_loop" /\ left = axis - 2 /\ right = axis + 2
    /\ IsJoker(At(set, axis - 1), "Double")
    /\ IsJoker(At(set, axis + 1), "Double")
    /\ ~incr_dj_left /\ ~incr_dj_right

\* the loop of _is_symmetric is about to compare a pair with a ColorChange
\* joker on either side
AtColorChangePair ==
    /\ pc = "sym_loop" /\ InRange(set, left) /\ InRange(set, right)
    /\ \/ IsJoker(At(set, left), "ColorChange")
       \/ IsJoker(At(set, right), "ColorChange")

\* both tiles under the cursors are ColorChange jokers
BothColorChange ==
    /\ IsJoker(At(set, left), "ColorChange")
    /\ IsJoker(At(set, right), "ColorChange")

(* C24: in _is_symmetric a ColorChange joker matches only another          *)
(* ColorChange joker at the mirrored position, and both cursors advance; a *)
(* ColorChange joker facing a basic tile or a Single, Double or Mirror     *)
(* joker, on either side, makes the result false.                          *)
C24_ColorChangeFacesColorChange ==
    [][AtColorChangePair =>
           IF BothColorChange
           THEN result' = "none" /\ left' = left - 1 /\ right' = right + 1
           ELSE pc' = "done" /\ result' = "false"]_vars

(* C24, amended: a ColorChange joker matches only another ColorChange      *)
(* joker at the mirrored position: the pair does not end the call and      *)
(* leaves the pending flags alone, and both cursors advance one step       *)
(* unless a cursor is at index 0 or at the last index, where the loop ends *)
(* with both cursors in place; facing any other tile, on either side, the  *)
(* joker makes the result false.                                           *)
C24_ColorChangeUnlessBoundary ==
    [][AtColorChangePair =>
           IF BothColorChange
           THEN /\ result' = "none"
                /\ UNCHANGED <<incr_dj_left, incr_dj_right>>
                /\ IF AtBoundary
                   THEN pc' = "sym_exit" /\ left' = left /\ right' = right
                   ELSE pc' = "sym_loop" /\ left' = left - 1
                                         /\ right' = right + 1
           ELSE pc' = "done" /\ result' = "false"]_vars

\* two ColorChange jokers next to the axis were compared and both cursors
\* moved on
C24_Witness ==
    /\ pc = "sym_loop" /\ left = axis - 2 /\ right = axis + 2
    /\ IsJoker(At(set, axis - 1), "ColorChange")
    /\ IsJoker(At(set, axis + 1), "ColorChange")

\* the tiles left of the axis a, and the tiles right of it
LeftSide(s, a) == SubSeq(s, 1, a)
RightSide(s, a) == SubSeq(s, a + 2, Len(s))

\* the two sides of the axis take different numbers of slots
SidesDiffer(s, a) ==
    LogicalSize(LeftSide(s, a)) # LogicalSize(RightSide(s, a))

(* C25: _is_symmetric returns false whenever the logical sizes of the two  *)
(* sides of the axis differ (a basic tile, a Single and a ColorChange      *)
(* joker take one slot, a Double joker two); DJ DJ | 5 4 3 is not          *)
(* symmetric.                                                              *)
C25_UnequalSidesNotSymmetric ==
    (SymDone /\ SidesDiffer(set, axis)) => result = "false"

\* the loop of is_valid_set is about to take the ColorChange arm of
\* Parsing::Run with a known last value that stays within range, and the
\* number of allowed colours is neither 1 nor 3: the `else` of the arm
AtUnexpectedColorCount ==
    /\ pc = "loop" /\ index < Len(set)
    /\ IsJoker(At(set, index), "ColorChange")
    /\ parsing.state = "Run"
    /\ parsing.last_value # None
    /\ parsing.last_value[1] + 1 <= MaxTileValue
    /\ AllowCnt(parsing.allow) \notin {1, 3}

(* C26: the 'Unexpected number of allowed colors' abort of is_valid_set    *)
(* never fires, also for three or more consecutive ColorChange jokers: at  *)
(* that point of the Run arm the number of allowed colours is 1 or 3.      *)
C26_AllowCountOneOrThree == ~AtUnexpectedColorCount

----------------------------------------------------------------------------
(* The allowance map as a HashMap: `allow.iter()` and `allow.values_mut()` *)
(* visit the four entries in an order that the hasher of the map fixes,    *)
(* and that differs from one map and one run of the program to the next.  *)

\* the orders in which a HashMap<TileColor, bool> may yield its entries
IterationOrders ==
    {o \in [1..Cardinality(TileColor) -> TileColor] :
        \A i, j \in DOMAIN o : i # j => o[i] # o[j]}

\* allow.iter().filter(|(_, v)| **v).collect().len(), visiting in order ord
RECURSIVE CountAllowed(_, _)
CountAllowed(allow, ord) ==
    IF ord = <<>> THEN 0
    ELSE (IF allow[Head(ord)] THEN 1 ELSE 0) + CountAllowed(allow, Tail(ord))

\* FlipEach leaving the loop after the entry that was allowed
RECURSIVE FlipEach_UntilAllowed(_, _)
FlipEach_UntilAllowed(allow, ord) ==
    IF ord = <<>> THEN allow
    ELSE IF allow[Head(ord)] THEN [allow EXCEPT ![Head(ord)] = FALSE]
    ELSE FlipEach_UntilAllowed([allow EXCEPT ![Head(ord)] = TRUE], Tail(ord))

\* for perm in allow.values_mut() { *perm = !*perm }, visiting in order ord
RECURSIVE FlipEach(_, _)
FlipEach(allow, ord) ==
    IF ord = <<>> THEN allow
    ELSE FlipEach([allow EXCEPT ![Head(ord)] = ~@], Tail(ord))

\* Parsing::Run, JokerVariant::ColorChange, the map iterated in order ord
Run_ColorChange_Ordered(p, ord) ==
    LET p1 == [p EXCEPT !.size = @ + 1] IN
    IF p1.last_value # None
    THEN LET val == p1.last_value[1] + 1
             p2 == [p1 EXCEPT !.last_value = Some(val)]
             allow_cnt == CountAllowed(p2.allow, ord)
         IN  IF val > MaxTileValue THEN Ret("false", p2)
             ELSE IF allow_cnt = 1
                  THEN Ret("continue",
                           [p2 EXCEPT !.allow = FlipEach(p2.allow, ord)])
             ELSE IF allow_cnt = 3
                  THEN Ret("continue", [p2 EXCEPT !.allow = Colors_all])
             ELSE Ret("panic", p2)
    ELSE Ret("continue", [p1 EXCEPT !.allow = Colors_all])

\* the outcomes of `match parsing` on tile t, one for each iteration order
\* of the map; the ColorChange arm of Parsing::Run is the only code that
\* iterates over it
Outcomes(p, t) ==
    IF p.state = "Run" /\ IsJoker(t, "ColorChange")
    THEN {Run_ColorChange_Ordered(p, ord) : ord \in IterationOrders}
    ELSE {Transition(p, t)}

\* s holds a ColorChange joker
HasColorChange(s) ==
    \E i \in 0..(Len(s) - 1) : IsJoker(At(s, i), "ColorChange")

\* the calls of is_valid_set on the sequences with a ColorChange joker
InitOrder ==
    /\ Init
    /\ entry = "is_valid_set"
    /\ HasColorChange(set)

\* is_valid_set: one iteration of the while loop, with the iteration order
\* of the map left open
Parse_Ordered ==
    /\ pc = "loop"
    /\ index < Len(set)
    /\ \E r \in Outcomes(parsing, At(set, index)) :
       /\ parsing' = r.parsing
       /\ IF r.ret = "continue"
          THEN /\ index' = index + 1
               /\ UNCHANGED <<pc, result, axis>>
          ELSE IF r.ret = "mirror"
          THEN /\ pc' = "_is_symmetric"
               /\ axis' = index
               /\ UNCHANGED <<index, result>>
          ELSE /\ Return(r.ret)
               /\ UNCHANGED <<index, axis>>
    /\ UNCHANGED <<set, entry, args, output, left, right, incr_dj_left, incr_dj_right>>

NextOrder ==
    \/ IsValidSet_Enter
    \/ Parse_Ordered
    \/ IsValidSet_ReturnTrue
    \/ IsSymmetric_Enter
    \/ IsSymmetric_Loop
    \/ IsSymmetric_Exit

SpecOrder == InitOrder /\ [][NextOrder]_vars

\* the loop of is_valid_set is about to handle a tile
AtTile == pc = "loop" /\ index < Len(set)

(* C27: is_valid_set is deterministic and read-only: two calls on equal    *)
(* sequences return equal results, whatever the iteration order of the     *)
(* allowance map in either call (every step has one outcome for all the    *)
(* orders, and every call on a sequence ends with the one result           *)
(* IsValidSet gives for it), and the sequence is never changed.            *)
C27_Deterministic ==
    /\ [](AtTile => Cardinality(Outcomes(parsing, At(set, index))) = 1)
    /\ [](ValidSetDone => result = IsValidSet(set))
    /\ [][set' = set]_vars

\* a call that inverted the allowance map at a ColorChange joker (one
\* colour allowed after two basic tiles) and went on to accept the sequence
C27_Witness ==
    /\ ValidSetDone /\ result = "true" /\ MirrorFree(set)
    /\ \E i \in 2..(Len(set) - 2) :
          /\ IsBasic(At(set, i - 2)) /\ IsBasic(At(set, i - 1))
          /\ IsJoker(At(set, i), "ColorChange")
          /\ IsBasic(At(set, i + 1))

----------------------------------------------------------------------------
(* Calls of the other functions of the crate, and calls of is_valid_set on *)
(* tiles written as struct literals: the fields of BasicTile are pub, so a *)
(* tile can be built without BasicTile::new.                               *)

\* TileValue = u8
MaxByte == 255

Byte == 0..MaxByte

\* longest sequence of literal tiles
MaxLiteralLen == 3

\* the values of the literal basic tiles: in range, and each way out of it
LiteralValues == {0, MinTileValue, MinTileValue + 1, MaxTileValue,
                  MaxTileValue + 1, MaxByte}

LiteralTiles ==
    {Basic(c, v) : c \in {"Red", "Blue"}, v \in LiteralValues}
        \cup {Joker(v) : v \in JokerVariant}

(* src/tiles.rs: deserialize_set, parse_tile_value. A String is a sequence *)
(* of characters; the characters of the inputs are a letter of two of the  *)
(* four colours, the letters of two of the four jokers, a letter that      *)
(* stands for no tile, three digits, the sign that parse::<u8> accepts,    *)
(* and the separator.                                                      *)

Chars == {" ", "r", "a", "j", "c", "x", "0", "1", "4", "+"}

\* longest input string
MaxInputLen == 4

DigitChars == <<"0", "1", "2", "3", "4", "5", "6", "7", "8", "9">>

IsDigit(c) == \E i \in DOMAIN DigitChars : DigitChars[i] = c

DigitValue(c) == (CHOOSE i \in DOMAIN DigitChars : DigitChars[i] = c) - 1

\* the decimal value of a sequence of digits
RECURSIVE Decimal(_)
Decimal(ds) ==
    IF ds = <<>> THEN 0
    ELSE 10 * Decimal(SubSeq(ds, 1, Len(ds) - 1)) + DigitValue(ds[Len(ds)])

Ok(v) == [ok |-> TRUE, val |-> v]

Err == [ok |-> FALSE]

\* token.parse::<u8>(): an optional '+', then one or more decimal digits
\* whose value fits a u8
ParseByte(token) ==
    LET digits == IF token # <<>> /\ Head(token) = "+" THEN Tail(token)
                  ELSE token
    IN  IF digits = <<>> THEN Err
        ELSE IF \E i \in DOMAIN digits : ~IsDigit(digits[i]) THEN Err
        ELSE IF Decimal(digits) > MaxByte THEN Err
        ELSE Ok(Decimal(digits))

\* parse_tile_value(token)
parse_tile_value(token) ==
    LET val == ParseByte(token) IN
    IF ~val.ok THEN Err
    ELSE IF val.val = 0 \/ val.val > MaxTileValue THEN Err
    ELSE Ok(val.val)

\* input.split(' '): the pieces between the separators, empty ones included
RECURSIVE Split(_)
Split(input) ==
    IF \A i \in DOMAIN input : input[i] # " " THEN <<input>>
    ELSE LET i == CHOOSE k \in DOMAIN input :
                      input[k] = " " /\ \A j \in 1..(k - 1) : input[j] # " "
         IN  <<SubSeq(input, 1, i - 1)>> \o Split(SubSeq(input, i + 1, Len(input)))

\* the colour a first character stands for
ColorLetters == [r |-> "Red", o |-> "Orange", u |-> "Blue", a |-> "Black"]

\* the joker a first character stands for
JokerLetters == [j |-> "Single", d |-> "Double", m |-> "Mirror", c |-> "ColorChange"]

\* the outcome of the loop body of deserialize_set on one token: the tile
\* pushed, `return Err(..)`, or a panic at the expression `at`
Pushed(tile) == [ret |-> "Ok", tile |-> tile]

Failed == [ret |-> "Err"]

Panicked(at) == [ret |-> "panic", at |-> at]

\* the loop body of deserialize_set
DeserializeToken(token) ==
    IF token = <<>> THEN Panicked("unwrap")
    ELSE LET first == Head(token) IN
         IF first \in DOMAIN ColorLetters
         THEN LET val == parse_tile_value(Tail(token)) IN
              IF ~val.ok THEN Failed
              ELSE LET made == BasicTile_new(ColorLetters[first], val.val) IN
                   IF made.panic THEN Panicked("BasicTile::new")
                   ELSE Pushed(made.tile)
         ELSE IF first \in DOMAIN JokerLetters
         THEN IF Len(token) > 1 THEN Failed
              ELSE Pushed(Joker(JokerLetters[first]))
         ELSE Failed

\* the while loop of deserialize_set over the tokens left, vec being the
\* tiles pushed so far
RECURSIVE DeserializeFrom(_, _)
DeserializeFrom(tokens, vec) ==
    IF tokens = <<>> THEN [ret |-> "Ok", vec |-> vec]
    ELSE LET r == DeserializeToken(Head(tokens)) IN
         IF r.ret = "Ok" THEN DeserializeFrom(Tail(tokens), Append(vec, r.tile))
         ELSE r

\* deserialize_set(input)
deserialize_set(input) == DeserializeFrom(Split(input), <<>>)

(* src/solve.rs and src/main.rs: can_win.                                  *)

\* most sets on a board
MaxBoardLen == 2

\* the tiles of the sets on the boards
BoardTiles == {Basic("Red", 5), Basic("Red", 6), Joker("Mirror"), Joker("Double")}

\* the sets on the boards: three tiles each, some valid, some invalid, and
\* some on which is_valid_set aborts
BoardSets == [1..3 -> BoardTiles]

\* the racks
Racks == {<<>>, <<Joker("Single")>>}

\* solve.rs can_win returning Err(()) without looking at the board
can_win_Unchecked(board, rack) == "Err"

\* solve.rs can_win(board, rack): the loop over the sets of the board panics
\* at the first set that is_valid_set does not accept (or aborts on)
RECURSIVE can_win(_, _)
can_win(board, rack) ==
    IF board = <<>> THEN "Err"
    ELSE IF IsValidSet(Head(board)) = "true" THEN can_win(Tail(board), rack)
    ELSE "panic"

\* the state at the start of a call of function f
CallOf(f) ==
    /\ entry = f
    /\ pc = f
    /\ output = None
    /\ index = 0
    /\ parsing = Parsing_Undetermined(None, 0)
    /\ axis = 0
    /\ left = 0
    /\ right = 0
    /\ incr_dj_left = FALSE
    /\ incr_dj_right = FALSE
    /\ result = "none"

InitCalls ==
    \/ /\ args \in TileColor \X Byte
       /\ set = <<>>
       /\ CallOf("BasicTile::new")
    \/ /\ args = None
       /\ \E n \in 0..MaxLiteralLen : set \in [1..n -> LiteralTiles]
       /\ CallOf("is_valid_set")
    \/ /\ \E n \in 0..MaxInputLen : args \in [1..n -> Chars]
       /\ set = <<>>
       /\ CallOf("deserialize_set")
    \/ /\ \E n \in 0..MaxBoardLen : args \in [1..n -> BoardSets] \X Racks
       /\ set = <<>>
       /\ \/ CallOf("solve::can_win")
          \/ CallOf("main::can_win")

\* BasicTile::new(color, value)
BasicTile_New ==
    /\ pc = "BasicTile::new"
    /\ LET made == BasicTile_new(args[1], args[2]) IN
       IF made.panic
       THEN Return("panic") /\ UNCHANGED output
       ELSE Return("returned") /\ output' = made.tile
    /\ UNCHANGED <<set, entry, args, index, parsing, symVars>>

\* deserialize_set(input): Ok(vec) or Err(..) with the vector or nothing in
\* output; on a panic output names the expression that panicked
Deserialize_Set ==
    /\ pc = "deserialize_set"
    /\ LET r == deserialize_set(args) IN
       /\ Return(r.ret)
       /\ output' = IF r.ret = "Ok" THEN r.vec
                    ELSE IF r.ret = "panic" THEN r.at
                    ELSE None
    /\ UNCHANGED <<set, entry, args, index, parsing, symVars>>

\* solve.rs: can_win(&board, &rack)
Solve_CanWin ==
    /\ pc = "solve::can_win"
    /\ Return(can_win(args[1], args[2]))
    /\ UNCHANGED <<set, entry, args, output, index, parsing, symVars>>

\* main.rs: can_win(board, rack)
Main_CanWin ==
    /\ pc = "main::can_win"
    /\ Return("Err")
    /\ UNCHANGED <<set, entry, args, output, index, parsing, symVars>>

NextCalls ==
    \/ BasicTile_New
    \/ Deserialize_Set
    \/ Solve_CanWin
    \/ Main_CanWin
    \/ IsValidSet_Enter
    \/ Parse
    \/ IsValidSet_ReturnTrue
    \/ IsSymmetric_Enter
    \/ IsSymmetric_Loop
    \/ IsSymmetric_Exit

SpecCalls == InitCalls /\ [][NextCalls]_vars

\* a finished call of function f
CallDone(f) == entry = f /\ Done

\* the loop of is_valid_set is about to run the None arm of
\* Parsing::Undetermined on a basic tile that passes
\* _assert_valid_tile_value: the arm that calls BasicTile::new
AtInnerConstructor ==
    /\ AtTile /\ IsBasic(At(set, index))
    /\ parsing.state = "Undetermined" /\ parsing.tile_seen = None
    /\ ValidTileValue(At(set, index).value)

\* BasicTile::new returns the tile of that colour and value when the value
\* is within 1..13 and aborts otherwise
C28_Contract ==
    CallDone("BasicTile::new") =>
        IF MinTileValue <= args[2] /\ args[2] <= MaxTileValue
        THEN /\ result = "returned" /\ IsBasic(output)
             /\ output.color = args[1] /\ output.value = args[2]
        ELSE result = "panic"

(* C28: BasicTile::new returns a tile with exactly that colour and value   *)
(* when 1 <= value <= 13 and aborts when the value is 0 or above 13; the   *)
(* BasicTile::new call inside is_valid_set never aborts, because the value *)
(* has passed _assert_valid_tile_value before.                             *)
C28_ConstructorContract ==
    /\ []C28_Contract
    /\ [][AtInnerConstructor => result' # "panic"]_vars

\* BasicTile::new has returned the tile of the highest value
C28_Witness ==
    /\ CallDone("BasicTile::new") /\ result = "returned"
    /\ args[2] = MaxTileValue /\ output = Basic(args[1], MaxTileValue)

\* no call of deserialize_set panics in BasicTile::new
C29_ConstructorInRange ==
    (CallDone("deserialize_set") /\ result = "panic") => output # "BasicTile::new"

(* C29: for every input string (the empty string, consecutive spaces that  *)
(* produce empty tokens, unknown letters, joker letters with trailing      *)
(* characters, values outside 1..13) deserialize_set returns Err or Ok: it *)
(* never panics and never reaches BasicTile::new with a value out of       *)
(* range.                                                                  *)
C29_DeserializeNeverPanics ==
    /\ CallDone("deserialize_set") => result \in {"Ok", "Err"}
    /\ C29_ConstructorInRange

\* is_valid_set reports every set of the board valid
BoardValid(board) ==
    \A i \in DOMAIN board : IsValidSet(board[i]) = "true"

(* C30: can_win is unimplemented and always fails: for every board and     *)
(* every rack, a board that contains an invalid set included, can_win      *)
(* returns Err(()) and never Ok.                                           *)
C30_AlwaysErr ==
    (CallDone("solve::can_win") \/ CallDone("main::can_win")) => result = "Err"

(* C30, amended: can_win never returns Ok. The can_win of solve.rs aborts  *)
(* when the board holds a set that is_valid_set does not report valid      *)
(* (it returns false on the set, or itself aborts), and returns Err(())    *)
(* for every other board and every rack; the can_win of main.rs returns    *)
(* Err(()) for every board and rack.                                       *)
C30_ErrOrAbort ==
    /\ CallDone("solve::can_win") =>
           result = IF BoardValid(args[1]) THEN "Err" ELSE "panic"
    /\ CallDone("main::can_win") => result = "Err"

\* the can_win of solve.rs has aborted on a board whose first set is valid
\* and whose second set is_valid_set rejects
C30_Witness ==
    /\ CallDone("solve::can_win") /\ result = "panic"
    /\ Len(args[1]) = 2
    /\ IsValidSet(args[1][1]) = "true" /\ IsValidSet(args[1][2]) = "false"

\* the tiles the loop of is_valid_set has consumed so far
Consumed == SubSeq(set, 1, index)

\* the loop of is_valid_set stands between two tiles in state st
Between(st) == pc = "loop" /\ parsing.state = st

\* the first basic tile of s comes after Single and Double jokers taking 4
\* logical positions and is followed at once by a basic tile
SecondBasicAfterFour(s) ==
    /\ MirrorFree(s) /\ Without(s, "ColorChange")
    /\ BasicIndices(s) # {} /\ LeadingSlots(s) = 4
    /\ FirstBasic(s) < Len(s) /\ IsBasic(s[FirstBasic(s) + 1])

(* C31: in Run state last_value is unknown only while no basic tile has    *)
(* been consumed: in every Run state reached after a basic tile last_value *)
(* is known, so every later basic tile is checked against last_value + 1   *)
(* (a second basic tile that follows a first basic tile seen after 4       *)
(* logical joker slots must have the next value).                          *)
C31_KnownAfterBasic ==
    /\ (Between("Run") /\ BasicIndices(Consumed) # {})
           => parsing.last_value # None
    /\ (ValidSetDone /\ SecondBasicAfterFour(set) /\ result = "true")
           => set[FirstBasic(set) + 1].value = set[FirstBasic(set)].value + 1

\* the value of the last logical position of s: the value of the first basic
\* tile of s plus the logical positions the tiles after it take
ImpliedValue(s) ==
    s[FirstBasic(s)].value + LogicalSize(SubSeq(s, FirstBasic(s) + 1, Len(s)))

(* C32: in every Run state with last_value known, last_value is the        *)
(* implied value of the last logical position consumed (the value of the   *)
(* first basic tile plus the logical distance from it; Single and          *)
(* ColorChange = 1, Double = 2), whichever transition entered Run: the     *)
(* second basic tile, a Single or a Double joker pushing size above 4, or  *)
(* a ColorChange joker met in Undetermined after one or more jokers.       *)
C32_LastValueIsImplied ==
    (Between("Run") /\ parsing.last_value # None /\ BasicIndices(Consumed) # {})
        => parsing.last_value[1] = ImpliedValue(Consumed)

(* C33: in every parse state reached, size is the logical length of the    *)
(* tiles consumed so far (a basic tile, a Single and a ColorChange joker   *)
(* add 1, a Double joker adds 2), across every state transition; and while *)
(* the state is Undetermined, size <= 4.                                   *)
C33_SizeIsLogicalLength ==
    pc = "loop" =>
        /\ parsing.size = LogicalSize(Consumed)
        /\ parsing.state = "Undetermined" => parsing.size <= 4

\* a Run state entered from Undetermined by a Double joker that pushed size
\* from 4 to 6
C33_Witness ==
    /\ Between("Run") /\ parsing.size = 6 /\ index >= 1
    /\ IsJoker(Consumed[index], "Double")
    /\ LogicalSize(SubSeq(Consumed, 1, index - 1)) = 4
    /\ Without(SubSeq(Consumed, 1, index - 1), "ColorChange")
    /\ Cardinality(BasicIndices(Consumed)) <= 1

----------------------------------------------------------------------------
(* src/parser.rs: the width of `size: u8` (lines 23-24, 33, 46). A run     *)
(* whose last_value is unknown has no upper limit on its length, so `*size *)
(* += n` can pass 255: a build with overflow checks (the debug profile)    *)
(* panics there, a build without them (the release profile) wraps.         *)

\* the longest sequence of Single and Double jokers taken in every order
MaxJokerLen == 6

\* the most logical positions of a sequence of one kind of joker
MaxSlots == 258

\* n jokers of one variant
Uniform(variant, n) == [i \in 1..n |-> Joker(variant)]

\* the sequences of Single and Double jokers: every order up to MaxJokerLen
\* tiles, and one variant up to MaxSlots logical positions
JokerSets ==
    UNION {[1..n -> {Joker("Single"), Joker("Double")}] : n \in 0..MaxJokerLen}
    \cup {Uniform("Single", n) : n \in 0..MaxSlots}
    \cup {Uniform("Double", n) : n \in 0..(MaxSlots \div 2)}

\* `*size += n` is the first statement of the Single, Double and ColorChange
\* arms of Parsing::Run (lines 92, 104, 119) and passes u8::MAX
Overflows(p, t) ==
    /\ p.state = "Run"
    /\ \E v \in {"Single", "Double", "ColorChange"} : IsJoker(t, v)
    /\ p.size + (IF IsJoker(t, "Double") THEN 2 ELSE 1) > MaxByte

\* one tile of the loop with size as a u8: with overflow checks the addition
\* panics, without them size wraps (these arms add to size and never read it)
Transition_u8(p, t, checks) ==
    IF Overflows(p, t)
    THEN IF checks
         THEN Ret("panic", p)
         ELSE Transition([p EXCEPT !.size = @ - (MaxByte + 1)], t)
    ELSE Transition(p, t)

InitJokers ==
    /\ set \in JokerSets
    /\ entry = "is_valid_set"
    /\ pc = "is_valid_set"
    /\ index = 0
    /\ axis = 0
    /\ left = 0
    /\ right = 0
    /\ incr_dj_left = FALSE
    /\ incr_dj_right = FALSE
    /\ parsing = Parsing_Undetermined(None, 0)
    /\ result = "none"
    /\ args = None
    /\ output = None

\* is_valid_set: one tile of the loop, in either build profile
Parse_u8 ==
    /\ pc = "loop"
    /\ index < Len(set)
    /\ \E checks \in BOOLEAN :
        LET r == Transition_u8(parsing, At(set, index), checks) IN
        /\ parsing' = r.parsing
        /\ IF r.ret = "continue"
           THEN /\ index' = index + 1
                /\ UNCHANGED <<pc, result>>
           ELSE /\ Return(r.ret)
                /\ UNCHANGED index
    /\ UNCHANGED <<set, entry, args, output, symVars>>

NextJokers ==
    \/ IsValidSet_Enter
    \/ Parse_u8
    \/ IsValidSet_ReturnTrue

SpecJokers == InitJokers /\ [][NextJokers]_vars

\* s is made of Single and Double jokers only
OnlySingleDouble(s) ==
    \A i \in 1..Len(s) : IsJoker(s[i], "Single") \/ IsJoker(s[i], "Double")

(* C38: every sequence of at least 3 tiles made only of Single and Double  *)
(* jokers, in any order and of any length, is accepted by is_valid_set.    *)
C38_JokersAccepted ==
    (ValidSetDone /\ Len(set) >= 3 /\ OnlySingleDouble(set)) => result = "true"

\* s is Single and Double jokers taking 4 logical positions and then one
\* basic tile, the first and the last tile of s
BasicAfterFour(s) ==
    /\ Len(s) >= 3 /\ IsBasic(s[Len(s)])
    /\ OnlySingleDouble(SubSeq(s, 1, Len(s) - 1))
    /\ LogicalSize(SubSeq(s, 1, Len(s) - 1)) = 4

(* C34: when the first basic tile arrives after leading Single and Double  *)
(* jokers of total logical size 4, the sequence is committed to a run and  *)
(* that tile is accepted if and only if its value is at least 5: J J DJ 5  *)
(* is valid and J J DJ 4 is not.                                           *)
C34_FifthPositionFromFive ==
    (ValidSetDone /\ BasicAfterFour(set))
        => (result = "true" <=> set[Len(set)].value >= 5)

\* is_valid_set has met a Mirror joker at index and has called _is_symmetric
MirrorReached ==
    /\ entry = "is_valid_set" /\ pc \in {"_is_symmetric", "sym_loop", "sym_exit", "done"}
    /\ ~TooShort(set) /\ index < Len(set) /\ IsJoker(At(set, index), "Mirror")

(* C35: when a Mirror joker is reached at index i, the call ends there:    *)
(* is_valid_set returns true if and only if no tile before index i was     *)
(* rejected by the state machine and _is_symmetric(sequence, i) is true;   *)
(* no tile after index i is ever examined by the Run, Group or             *)
(* Undetermined transitions (the loop never passes the first Mirror joker, *)
(* and from the call of _is_symmetric on the index and the parse state     *)
(* stay as they are and the loop is not resumed).                          *)
C35_MirrorEndsCall ==
    /\ []((entry = "is_valid_set" /\ ~MirrorFree(set)) => index <= FirstMirror(set))
    /\ []((MirrorReached /\ Done)
              => (result = "true" <=> IsSymmetric(set, index) = "true"))
    /\ [][MirrorReached
              => (index' = index /\ parsing' = parsing /\ pc' # "loop")]_vars

\* accepted at the Mirror joker in the middle of 5 tiles whose last two
\* tiles descend, which the Run transitions would reject
C35_Witness ==
    /\ MirrorReached /\ Done /\ result = "true"
    /\ Len(set) = 5 /\ index = 2
    /\ IsBasic(set[4]) /\ IsBasic(set[5]) /\ set[5].value < set[4].value

----------------------------------------------------------------------------
(* Termination of _is_symmetric: the program is sequential and takes its   *)
(* next step whenever it has one.                                          *)

\* the calls of _is_symmetric
InitScan == Init /\ entry = "_is_symmetric"

NextScan ==
    \/ IsSymmetric_Enter
    \/ IsSymmetric_Loop
    \/ IsSymmetric_Exit

SpecScan == InitScan /\ [][NextScan]_vars /\ WF_vars(NextScan)

\* the cursors and flags of the scan in the current state
Cursors == SymState(left, right, incr_dj_left, incr_dj_right)

RECURSIVE Iterations(_, _)
\* the number of iterations `loop` runs from the state st on
Iterations(s, st) ==
    LET r == Iterate(s, st) IN
    IF r.ret = "continue" THEN 1 + Iterations(s, r.st) ELSE 1

\* the next two iterations from st both go on with the loop
TwoMore(s, st) ==
    /\ Iterate(s, st).ret = "continue"
    /\ Iterate(s, Iterate(s, st).st).ret = "continue"

\* the state two iterations after st has a cursor further out than st
MovedOutward(s, st) ==
    LET st2 == Iterate(s, Iterate(s, st).st).st IN
    st2.left < st.left \/ st2.right > st.right

(* C36: the symmetry scan always terminates: for every sequence and every  *)
(* axis index, in any two consecutive loop iterations of _is_symmetric     *)
(* that do not return, at least one cursor moves outward, so the loop ends *)
(* after a number of iterations bounded by twice the sequence length.      *)
C36_ScanTerminates ==
    /\ []((pc = "sym_loop" /\ TwoMore(set, Cursors)) => MovedOutward(set, Cursors))
    /\ [](pc = "sym_loop" => Iterations(set, Cursors) <= 2 * Len(set))
    /\ (pc = "sym_loop" ~> Done)

\* the scan after a first comparison of two Double jokers that moved no
\* cursor, away from both ends
C36_Witness ==
    /\ pc = "sym_loop" /\ incr_dj_left /\ incr_dj_right
    /\ left = axis - 1 /\ right = axis + 1
    /\ left > 0 /\ right < Len(set) - 1

(* C37: whenever _is_symmetric returns true, the logical sizes of the      *)
(* tiles left of the axis and right of the axis are equal (a Double joker  *)
(* takes 2 slots, every other tile 1), no pending Double flag is still     *)
(* set, and both cursors are exactly at index 0 and at the last index.     *)
C37_TrueMeansBalanced ==
    (SymDone /\ result = "true") =>
        /\ ~SidesDiffer(set, axis)
        /\ ~incr_dj_left /\ ~incr_dj_right
        /\ left = 0 /\ right = Len(set) - 1

\* _is_symmetric returned true with a Double joker at each end, each left
\* after its second comparison
C37_Witness ==
    /\ SymDone /\ result = "true"
    /\ IsJoker(At(set, 0), "Double") /\ IsJoker(At(set, Len(set) - 1), "Double")
    /\ Len(set) >= 5

\* the first n tiles of s
Prefix(s, n) == SubSeq(s, 1, n)

\* is_valid_set has returned false at the tile at index, which is no Mirror
\* joker: the state machine rejected that tile
Rejected ==
    /\ ValidSetDone /\ ~TooShort(set) /\ result = "false"
    /\ index < Len(set) /\ ~IsJoker(At(set, index), "Mirror")

(* C39: for Mirror-free sequences validity is prefix-closed and rejection  *)
(* is final: if is_valid_set returns true on a sequence with no Mirror     *)
(* joker, it returns true on every prefix of length >= 3 (so do the tiles  *)
(* the loop has passed so far, from 3 tiles on); and once a tile causes    *)
(* rejection, no continuation of the sequence is accepted.                 *)
C39_PrefixClosed ==
    /\ (ValidSetDone /\ MirrorFree(set) /\ result = "true")
           => \A n \in 3..Len(set) : IsValidSet(Prefix(set, n)) = "true"
    /\ (entry = "is_valid_set" /\ pc = "loop" /\ index >= 3)
           => IsValidSet(Consumed) = "true"
    /\ Rejected
           => \A n \in (index + 1)..Len(set) : IsValidSet(Prefix(set, n)) = "false"

\* a run of 5 tiles was accepted: its prefixes of 3 and 4 tiles are runs too
C39_Witness ==
    /\ ValidSetDone /\ MirrorFree(set) /\ result = "true" /\ Len(set) = 5
    /\ BasicIndices(set) # {}

====
